---- MODULE Spec2Model ----
(***************************************************************************)
(* Market_weather: the tradability scorer and the hysteresis state         *)
(* classifier of mw/scoring/tradability.py.                                *)
(*                                                                         *)
(* Numbers.  A float is a record [nan, val].  Scores and thresholds are    *)
(* counted in hundredths (0.45 is 45), features and weights in tenths      *)
(* (0.5 is 5), so that a weight times a feature is again in hundredths.    *)
(* Positions are Python's: the first element of a Series is position 0,    *)
(* and it is element 1 of the TLA+ sequence that holds the Series.         *)
(***************************************************************************)
EXTENDS Integers, Sequences, FiniteSets, TLC

VARIABLES
    \* ---- state_machine: the frame of the call in progress
    pc,             \* "idle" (no call yet), "loop" (inside the for loop), "done" (returned)
    prev_state,     \* the prev_state argument ("None" when absent)
    timestamps,     \* the timestamps argument ("None" when absent)
    thresholds,     \* the thresholds dict, as rebound on lines 61-64
    hysteresis,     \* the hysteresis dict, as rebound on lines 67-73
    scores,         \* the elements of the scores argument enumerated so far
    current_state,
    last_flip_idx,
    up_count,
    down_count,
    states,         \* the list the loop appends to
    result,         \* the returned Series (its values; its index is that of scores)
    raised,         \* the exception the call ended with ("none": it returned or runs)
    log,            \* history: what the loop body computed at each position
    \* ---- the caller threading calls one after the other
    firstPrev,      \* history: prev_state of the first call of the chain
    allScores,      \* history: the scores of all calls of the chain, concatenated
    allStates,      \* history: the states returned by the calls of the chain, concatenated
    allFlips,       \* history: positions in allScores of the accepted transitions
    \* ---- score_tradability
    e_hat,
    l_hat,
    weights,        \* the weights dict, as rebound on lines 27-34
    score,          \* the returned Series
    scored,         \* whether score_tradability has returned
    \* ---- the feature functions of mw/features (one call)
    f_op,           \* the function called ("none" before the call)
    f_x,            \* its series argument
    f_arg,          \* its other arguments
    f_raised,       \* the exception the call ended with ("none" when it returned)
    f_out,          \* the value it returned
    \* ---- one call of run_minute_loop
    ml_pc,          \* "idle", "loop" (between steps), "step" (inside one), "returned", "raised"
    ml_raised,      \* the exception run_minute_loop ended with ("none" otherwise)
    ml_offsets,     \* ml_params.offsets
    ml_critical,    \* critical_steps
    ml_fns,         \* which of error_fn, last_bar_ts_fn, stale_fn are given
    ml_last_bar,    \* what last_bar_ts_fn does when it is called
    ml_idx,         \* the place of the loop in steps, from 1
    ml_stale,       \* the local stale
    ml_outcome,     \* per step: "notrun", "running", "ok", "raised", "skipped"
    ml_calls,       \* the step callables invoked so far, in order
    ml_reports,     \* the calls of error_fn so far: [name, exc]
    ml_stale_calls, \* the number of calls of stale_fn so far
    ml_now,         \* the clock, in seconds after minute_start
    ml_waits,       \* the number of calls of time.sleep so far
    ml_last_wait,   \* the last call of time.sleep: the step and the seconds
    \* ---- one call of fetch_fx_agg_minute or fetch_quotes
    h_pc,           \* "idle", "request" (inside the retry loop), "returned", "raised"
    h_fn,           \* the function called ("none" before the call)
    h_attempt,      \* the loop variable attempt
    h_page,         \* the page being fetched, from 1
    h_requests,     \* the number of calls of get_call so far
    h_log,          \* history: the responses of the current page, each with the
                    \* sleep that followed it (NoSleep when none did)
    h_results,      \* the results collected so far
    h_raised,       \* the exception the call ended with ("none" otherwise)
    \* ---- calls of write_parquet and write_json on one target path
    w_pc,           \* "idle", "created" (the temporary file exists), "serialized",
                    \* "returned", "raised", "killed" (the process was interrupted)
    w_fn,           \* the function called ("none" before the first call)
    w_obj,          \* the content to write, as a sequence of chunks
    w_target,       \* the file at the target path
    w_prev,         \* history: the file at the target path when the call began
    w_temp,         \* the temporary file of the call
    w_left,         \* the number of temporary files earlier calls left behind
    w_raised,       \* the exception the call ended with ("none" otherwise)
    w_calls,        \* the number of calls so far
    \* ---- calls of _append_polled_bars; timestamps are whole minutes
    b_last,         \* the global _LAST_TS_SEEN (NoTs: None)
    b_gap_events,   \* logger.gap_events, the timestamps
    b_gap_count,    \* logger.gap_count
    b_dup_count,    \* logger.duplicate_count
    b_late_events,  \* logger.late_bar_events, the timestamps
    b_seen_bars,    \* logger.seen_bars
    b_stored,       \* the timestamps of the bars in data/minute_bars.parquet
    b_first,        \* history: the first timestamp ever accepted (NoTs: none yet)
    b_before,       \* history: _LAST_TS_SEEN before the latest call
    b_logged,       \* history: every call so far was given the session logger
    b_polls         \* the number of calls so far

smVars == <<pc, prev_state, timestamps, thresholds, hysteresis, scores,
            current_state, last_flip_idx, up_count, down_count, states,
            result, raised, log>>
chainVars == <<firstPrev, allScores, allStates, allFlips>>
scoreVars == <<e_hat, l_hat, weights, score, scored>>
featVars == <<f_op, f_x, f_arg, f_raised, f_out>>
mlVars == <<ml_pc, ml_raised, ml_offsets, ml_critical, ml_fns, ml_last_bar, ml_idx,
           ml_stale, ml_outcome, ml_calls, ml_reports, ml_stale_calls, ml_now,
           ml_waits, ml_last_wait>>
httpVars == <<h_pc, h_fn, h_attempt, h_page, h_requests, h_log, h_results, h_raised>>
fileVars == <<w_pc, w_fn, w_obj, w_target, w_prev, w_temp, w_left, w_raised, w_calls>>
barVars == <<b_last, b_gap_events, b_gap_count, b_dup_count, b_late_events,
            b_seen_bars, b_stored, b_first, b_before, b_logged, b_polls>>
ioVars == <<httpVars, fileVars, barVars>>
vars == <<smVars, chainVars, scoreVars, featVars, mlVars, ioVars>>

----------------------------------------------------------------------------
(* Bounds of the model *)

MaxLen == 4         \* longest scores Series of one call
MaxK == 2           \* largest k_up, k_down
MaxSpacing == 2     \* largest min_flip_spacing passed explicitly (the default is 3)
MaxIdx == 1         \* index labels of e_hat and l_hat are 0..MaxIdx
MaxSeries == 4      \* longest series given to minmax_causal and ema
MaxWin == 3         \* largest win and span
MaxSamples == 5     \* longest series given to the entropy and FTLE estimators
MaxM == 3           \* largest embedding dimension of permutation_entropy
ExampleLen == 9     \* length of the Series of the hysteresis example

----------------------------------------------------------------------------
(* Floats, dicts and None *)

Num(v) == [nan |-> FALSE, val |-> v]
NaN == [nan |-> TRUE, val |-> 0]

\* GE with NaN comparing True
GENaNTrue(x, t) == x.nan \/ x.val >= t

\* x >= t and x <= t on floats: every comparison with NaN is False
GE(x, t) == ~x.nan /\ x.val >= t
LE(x, t) == ~x.nan /\ x.val <= t

\* None and {} are both falsy; the model writes both as the empty dict
NoDict == [k \in {} |-> 0]
Truthy(d) == DOMAIN d # {}
Get(d, k, default) == IF k \in DOMAIN d THEN d[k] ELSE default

States3 == {"RED", "YELLOW", "GREEN"}

DEFAULT_WEIGHTS == [w1 |-> 6, w2 |-> 4]
DEFAULT_THRESH == [tau_y |-> 45, tau_g |-> 65]
DEFAULT_HYST == [k_up |-> 2, k_down |-> 1, min_flip_spacing |-> 3]

----------------------------------------------------------------------------
(* state_machine: the pieces of its body *)

ResolveThresholds(th) ==
    LET t == IF Truthy(th) THEN th ELSE DEFAULT_THRESH
    IN  [tau_y |-> Get(t, "tau_y", DEFAULT_THRESH.tau_y),
         tau_g |-> Get(t, "tau_g", DEFAULT_THRESH.tau_g)]

ResolveHysteresis(hy) ==
    LET h == IF Truthy(hy) THEN hy ELSE DEFAULT_HYST
    IN  [k_up |-> Get(h, "k_up", DEFAULT_HYST.k_up),
         k_down |-> Get(h, "k_down", DEFAULT_HYST.k_down),
         min_flip_spacing |-> Get(h, "min_flip_spacing", DEFAULT_HYST.min_flip_spacing)]

\* prev_state or "YELLOW"
InitialState(prev) == IF prev \in {"None", ""} THEN "YELLOW" ELSE prev

\* InitialLastFlipIdx starting at 0
InitialLastFlipIdxZero(min_flip_spacing) == 0

InitialLastFlipIdx(min_flip_spacing) == 0 - min_flip_spacing

\* UpdateCounters with the else branch of lines 94-96 leaving the counters as they are
UpdateCountersKeepsRuns(sc, up, down, tau_y, tau_g) ==
    IF GE(sc, tau_g) THEN [up |-> up + 1, down |-> 0]
    ELSE IF LE(sc, tau_y) THEN [up |-> 0, down |-> down + 1]
    ELSE [up |-> up, down |-> down]

\* UpdateCounters with each branch leaving the other counter as it is
UpdateCountersKeepsOther(sc, up, down, tau_y, tau_g) ==
    IF GE(sc, tau_g) THEN [up |-> up + 1, down |-> down]
    ELSE IF LE(sc, tau_y) THEN [up |-> up, down |-> down + 1]
    ELSE [up |-> 0, down |-> 0]

UpdateCounters(sc, up, down, tau_y, tau_g) ==
    IF GE(sc, tau_g) THEN [up |-> up + 1, down |-> 0]
    ELSE IF LE(sc, tau_y) THEN [up |-> 0, down |-> down + 1]
    ELSE [up |-> 0, down |-> 0]

DesiredState(up, down, k_up, k_down) ==
    IF up >= k_up THEN "GREEN"
    ELSE IF down >= k_down THEN "RED"
    ELSE "YELLOW"

\* SpacingOk one observation early, with > for >=, and not checked at all
SpacingOkOneEarly(i, last, min_flip_spacing) == i - last >= min_flip_spacing - 1
SpacingOkStrict(i, last, min_flip_spacing) == i - last > min_flip_spacing
SpacingOkAlways(i, last, min_flip_spacing) == TRUE

SpacingOk(i, last, min_flip_spacing) == i - last >= min_flip_spacing

\* Emitted appending the desired state
EmittedDesired(current, desired) == desired

\* what states.append receives
Emitted(current, desired) == current

\* AcceptTransition leaving the counters as the counter update made them
AcceptTransitionKeepsCounters(c, desired, i) ==
    [current_state |-> desired, last_flip_idx |-> i,
     up_count |-> c.up, down_count |-> c.down]

\* lines 105-109: the body of the if, c being the updated counters
AcceptTransition(c, desired, i) ==
    [current_state |-> desired, last_flip_idx |-> i,
     up_count |-> 0, down_count |-> 0]

\* One iteration of the for loop at position i, from the context ctx.
LoopBody(ctx, i, sc, th, hy) ==
    LET c == UpdateCounters(sc, ctx.up_count, ctx.down_count, th.tau_y, th.tau_g)
        desired == DesiredState(c.up, c.down, hy.k_up, hy.k_down)
        ok == SpacingOk(i, ctx.last_flip_idx, hy.min_flip_spacing)
        accepted == desired # ctx.current_state /\ ok
        next == IF accepted
                THEN AcceptTransition(c, desired, i)
                ELSE [current_state |-> ctx.current_state,
                      last_flip_idx |-> ctx.last_flip_idx,
                      up_count |-> c.up, down_count |-> c.down]
    IN  [ctx |-> next,
         emitted |-> Emitted(next.current_state, desired),
         up |-> c.up, down |-> c.down, desired |-> desired,
         spacing_ok |-> ok, accepted |-> accepted,
         before |-> ctx.current_state, last_before |-> ctx.last_flip_idx]

InitialContext(prev, hy) ==
    [current_state |-> InitialState(prev),
     last_flip_idx |-> InitialLastFlipIdx(hy.min_flip_spacing),
     up_count |-> 0, down_count |-> 0]

RECURSIVE RunLoop(_, _, _, _, _)
RunLoop(scs, i, ctx, th, hy) ==
    IF i >= Len(scs) THEN <<>>
    ELSE LET r == LoopBody(ctx, i, scs[i + 1], th, hy)
         IN  <<r.emitted>> \o RunLoop(scs, i + 1, r.ctx, th, hy)

\* state_machine as a function of its arguments (th, hy already resolved)
StateMachine(scs, prev, th, hy) == RunLoop(scs, 0, InitialContext(prev, hy), th, hy)

----------------------------------------------------------------------------
(* The arguments the model calls state_machine with *)

ScoreValues == {Num(45), Num(50), Num(65), NaN}
ExampleValues == {Num(30), Num(50), Num(70)}
\* prev_state = "YELLOW" starts a call exactly as its absence does
PrevStates == {"None", "RED", "GREEN"}
ThresholdArgs == {NoDict, [tau_g |-> 65], [tau_y |-> 50, tau_g |-> 50]}
HysteresisArgs ==
    {NoDict, [k_up |-> 1]}
    \cup {[k_up |-> a, k_down |-> b, min_flip_spacing |-> s] :
            a \in 1..MaxK, b \in 1..MaxK, s \in 0..MaxSpacing}

----------------------------------------------------------------------------
(* state_machine: the actions *)

SMIdle ==
    /\ pc = "idle"
    /\ prev_state = "None"
    /\ timestamps = "None"
    /\ thresholds = DEFAULT_THRESH
    /\ hysteresis = DEFAULT_HYST
    /\ scores = <<>>
    /\ current_state = "YELLOW"
    /\ last_flip_idx = 0
    /\ up_count = 0
    /\ down_count = 0
    /\ states = <<>>
    /\ result = <<>>
    /\ raised = "none"
    /\ log = <<>>

ChainIdle ==
    /\ firstPrev = "None"
    /\ allScores = <<>>
    /\ allStates = <<>>
    /\ allFlips = <<>>

\* Lines 60-86: the arguments are bound and the locals initialised.
Enter(prev, th, hy, ts) ==
    /\ prev_state' = prev
    /\ timestamps' = ts
    /\ thresholds' = ResolveThresholds(th)
    /\ hysteresis' = ResolveHysteresis(hy)
    /\ current_state' = InitialState(prev)
    /\ last_flip_idx' = InitialLastFlipIdx(ResolveHysteresis(hy).min_flip_spacing)
    /\ up_count' = 0
    /\ down_count' = 0
    /\ scores' = <<>>
    /\ states' = <<>>
    /\ log' = <<>>
    /\ result' = <<>>
    /\ raised' = "none"
    /\ pc' = "loop"

\* The first call of a chain, with arguments from the given sets.
CallFrom(prevs, ths, hys, ts) ==
    /\ pc = "idle"
    /\ \E prev \in prevs, th \in ths, hy \in hys :
          /\ Enter(prev, th, hy, ts)
          /\ firstPrev' = prev
    /\ allScores' = <<>>
    /\ allStates' = <<>>
    /\ allFlips' = <<>>
    /\ UNCHANGED <<scoreVars, featVars, mlVars, ioVars>>

Call == CallFrom(PrevStates, ThresholdArgs, HysteresisArgs, "None")

\* state_machine(scores, ..., timestamps=ts)
CallWithTimestamps == CallFrom(PrevStates, ThresholdArgs, HysteresisArgs, "given")

\* state_machine(scores)
CallDefaults == CallFrom({"None"}, {NoDict}, {NoDict}, "None")

\* The caller classifies the next chunk: same parameters, prev_state the last
\* state the previous call returned (its own prev_state when that was empty).
CallAgain ==
    /\ pc = "done"
    /\ Len(allScores) < MaxLen
    /\ Enter(IF result = <<>> THEN prev_state ELSE result[Len(result)],
             thresholds, hysteresis, "None")
    /\ UNCHANGED <<chainVars, scoreVars, featVars, mlVars, ioVars>>

\* Lines 87-111: one iteration of the loop, on the next element of scores.
Iterate(values, bound) ==
    /\ pc = "loop"
    /\ Len(allScores) < bound
    /\ \E sc \in values :
          LET i == Len(scores)
              ctx == [current_state |-> current_state, last_flip_idx |-> last_flip_idx,
                      up_count |-> up_count, down_count |-> down_count]
              r == LoopBody(ctx, i, sc, thresholds, hysteresis)
          IN  /\ scores' = Append(scores, sc)
              /\ current_state' = r.ctx.current_state
              /\ last_flip_idx' = r.ctx.last_flip_idx
              /\ up_count' = r.ctx.up_count
              /\ down_count' = r.ctx.down_count
              /\ states' = Append(states, r.emitted)
              /\ log' = Append(log, [up |-> r.up, down |-> r.down, desired |-> r.desired,
                                     spacing_ok |-> r.spacing_ok, accepted |-> r.accepted,
                                     before |-> r.before, last_before |-> r.last_before])
              /\ allScores' = Append(allScores, sc)
              /\ allStates' = Append(allStates, r.emitted)
              /\ allFlips' = IF r.accepted THEN Append(allFlips, Len(allScores)) ELSE allFlips
    /\ UNCHANGED <<pc, prev_state, timestamps, thresholds, hysteresis, result, raised,
                   firstPrev, scoreVars, featVars, mlVars, ioVars>>

Loop == Iterate(ScoreValues, MaxLen)

LoopExample == Iterate(ExampleValues, ExampleLen)

\* Line 113: the scores are exhausted and the Series of states is returned.
Return ==
    /\ pc = "loop"
    /\ result' = states
    /\ pc' = "done"
    /\ UNCHANGED <<prev_state, timestamps, thresholds, hysteresis, scores, current_state,
                   last_flip_idx, up_count, down_count, states, raised, log,
                   chainVars, scoreVars, featVars, mlVars, ioVars>>

----------------------------------------------------------------------------
(* score_tradability *)

ResolveWeights(w) ==
    IF ~Truthy(w) THEN DEFAULT_WEIGHTS
    ELSE [w1 |-> Get(w, "w1", DEFAULT_WEIGHTS.w1),
          w2 |-> Get(w, "w2", DEFAULT_WEIGHTS.w2)]

\* float arithmetic: NaN in, NaN out
OneMinus(x) == IF x.nan THEN NaN ELSE Num(10 - x.val)
Times(w, x) == IF x.nan THEN NaN ELSE Num(w * x.val)
Plus(x, y) == IF x.nan \/ y.nan THEN NaN ELSE Num(x.val + y.val)

\* Clip without the lower bound
ClipUpperOnly(x, lo, hi) ==
    IF x.nan THEN x
    ELSE IF x.val > hi THEN Num(hi)
    ELSE x

\* Series.clip(lo, hi): a missing value stays missing
Clip(x, lo, hi) ==
    IF x.nan THEN x
    ELSE IF x.val < lo THEN Num(lo)
    ELSE IF x.val > hi THEN Num(hi)
    ELSE x

\* e_hat.align(l_hat, join="inner"): the labels both Series carry
AlignInner(e, l) == DOMAIN e \cap DOMAIN l

ScoreTradability(e, l, w) ==
    LET ws == ResolveWeights(w)
    IN  [p \in AlignInner(e, l) |->
            Clip(Plus(Times(ws.w1, OneMinus(e[p])), Times(ws.w2, OneMinus(l[p]))),
                 0, 100)]

FeatureValues == {Num(0 - 5), Num(2), Num(20), NaN}
SeriesArgs == UNION {[idx -> FeatureValues] : idx \in SUBSET (0..MaxIdx)}
WeightArgs == {NoDict, [w1 |-> 5, w2 |-> 5], [w2 |-> 0 - 5], [w1 |-> 0 - 5, w2 |-> 15]}

ScoreIdle ==
    /\ e_hat = NoDict
    /\ l_hat = NoDict
    /\ weights = DEFAULT_WEIGHTS
    /\ score = NoDict
    /\ scored = FALSE

Score ==
    /\ ~scored
    /\ \E e \in SeriesArgs, l \in SeriesArgs, w \in WeightArgs :
          /\ e_hat' = e
          /\ l_hat' = l
          /\ weights' = ResolveWeights(w)
          /\ score' = ScoreTradability(e, l, w)
    /\ scored' = TRUE
    /\ UNCHANGED <<smVars, chainVars, featVars, mlVars, ioVars>>

----------------------------------------------------------------------------
(* Exact fractions: the value n/d of a float computed from integer inputs *)

RECURSIVE GCD(_, _)
GCD(a, b) == IF b = 0 THEN a ELSE GCD(b, a % b)
Abs(a) == IF a < 0 THEN 0 - a ELSE a

\* the fraction n/d (d > 0) in lowest terms
Q(n, d) ==
    LET g == GCD(Abs(n), d)
    IN  [nan |-> FALSE, n |-> n \div g, d |-> d \div g]
QNaN == [nan |-> TRUE, n |-> 0, d |-> 1]
QInt(v) == Q(v, 1)
QAdd(a, b) == IF a.nan \/ b.nan THEN QNaN ELSE Q(a.n * b.d + b.n * a.d, a.d * b.d)
QMul(a, b) == IF a.nan \/ b.nan THEN QNaN ELSE Q(a.n * b.n, a.d * b.d)
\* a / b for b > 0
QDiv(a, b) == IF a.nan \/ b.nan THEN QNaN ELSE Q(a.n * b.d, a.d * b.n)
\* the float x of an input series as a fraction
QOf(x) == IF x.nan THEN QNaN ELSE QInt(x.val)

\* Series.clip(0.0, 1.0)
QClip01(a) ==
    IF a.nan THEN a
    ELSE IF a.n < 0 THEN QInt(0)
    ELSE IF a.n > a.d THEN QInt(1)
    ELSE a

Min2(a, b) == IF a <= b THEN a ELSE b
Max2(a, b) == IF a >= b THEN a ELSE b
SetMin(S) == CHOOSE v \in S : \A w \in S : v <= w
SetMax(S) == CHOOSE v \in S : \A w \in S : v >= w

\* the numbers of x at elements lo..hi (missing values left out)
Observed(x, lo, hi) == {x[q].val : q \in {r \in lo..hi : ~x[r].nan}}

----------------------------------------------------------------------------
(* mw/features/scaling.py: minmax_causal *)

\* eps = 1e-9 is 1/EpsInv
EpsInv == 1000000000

\* first element of the window x.rolling(win, ...) ends at element p
WindowStart(p, win) == Max2(1, p - win + 1)

\* a window that reaches one element past p
WindowEndAhead(x, p) == Min2(p + 1, Len(x))

\* last element of the window x.rolling(win, ...) ends at element p
WindowEnd(x, p) == p

\* x.rolling(win, min_periods=1).min() at element p
RollingMin(x, p, win) ==
    LET obs == Observed(x, WindowStart(p, win), WindowEnd(x, p))
    IN  IF obs = {} THEN QNaN ELSE QInt(SetMin(obs))

\* x.rolling(win, min_periods=1).max() at element p
RollingMax(x, p, win) ==
    LET obs == Observed(x, WindowStart(p, win), WindowEnd(x, p))
    IN  IF obs = {} THEN QNaN ELSE QInt(SetMax(obs))

\* Scaled without eps in the denominator (0/0 is NaN, v/0 is infinite)
ScaledNoEps(xv, lo, hi) ==
    IF xv.nan \/ lo.nan \/ hi.nan THEN QNaN
    ELSE IF hi.n = lo.n THEN (IF xv.n = lo.n THEN QNaN ELSE QInt(2))
    ELSE Q(xv.n - lo.n, hi.n - lo.n)

\* (x - x_min) / (x_max - x_min + eps) on integers
Scaled(xv, lo, hi) ==
    IF xv.nan \/ lo.nan \/ hi.nan THEN QNaN
    ELSE Q((xv.n - lo.n) * EpsInv, (hi.n - lo.n) * EpsInv + 1)

\* the Series minmax_causal returns for win > 0
MinmaxCausal(x, win) ==
    [p \in 1..Len(x) |->
        QClip01(Scaled(QOf(x[p]), RollingMin(x, p, win), RollingMax(x, p, win)))]

----------------------------------------------------------------------------
(* mw/features/smoothing.py: ema *)

\* Series.ewm(span=span, adjust=False).mean(): one step of pandas' recursion,
\* which carries the mean over a missing value and weighs the old mean by
\* (1-alpha)^gap
EwmStep(prev, cur, span) ==
    LET alpha == Q(2, span + 1)
        wt == QMul(prev.old_wt, Q(span - 1, span + 1))
    IN  IF prev.mean.nan THEN [mean |-> cur, old_wt |-> QInt(1)]
        ELSE IF cur.nan THEN [mean |-> prev.mean, old_wt |-> wt]
        ELSE [mean |-> QDiv(QAdd(QMul(wt, prev.mean), QMul(alpha, cur)),
                            QAdd(wt, alpha)),
              old_wt |-> QInt(1)]

\* the means from element p on, after the means acc of the elements before it
RECURSIVE EwmFrom(_, _, _, _, _)
EwmFrom(x, p, span, prev, acc) ==
    IF p > Len(x) THEN acc
    ELSE LET next == EwmStep(prev, QOf(x[p]), span)
         IN  EwmFrom(x, p + 1, span, next, Append(acc, next.mean))

\* the Series ema returns for span > 0
Ema(x, span) == EwmFrom(x, 1, span, [mean |-> QNaN, old_wt |-> QInt(1)], <<>>)

----------------------------------------------------------------------------
(* ema and minmax_causal feeding score_tradability *)

\* A score of two computed features is kept as the pair it is computed from:
\* the float is clip(w1*(1-e) + w2*(1-l), 0, 1), and NaN when either is NaN.
ScoreOf(e, l) == [nan |-> e.nan \/ l.nan, e |-> e, l |-> l]

\* score_tradability(e_hat, l_hat) with the default weights
PipelineScore(e, l) == [p \in AlignInner(e, l) |-> ScoreOf(e[p], l[p])]

\* the features and the score of a frame with columns error and latency
Pipeline(error, latency) ==
    LET e == Ema(error, 3)
        l == MinmaxCausal(latency, 3)
    IN  [e_hat |-> e, l_hat |-> l, score |-> PipelineScore(e, l)]

----------------------------------------------------------------------------
(* mw/features/entropy.py *)

Range(f) == {f[k] : k \in DOMAIN f}

\* series.dropna().to_numpy(): the numbers of the series, in order
RECURSIVE DropNa(_)
DropNa(x) ==
    IF x = <<>> THEN <<>>
    ELSE IF Head(x).nan THEN DropNa(Tail(x))
    ELSE <<Head(x).val>> \o DropNa(Tail(x))

\* a sort that puts the later of two equal values first
RankLastFirst(w, k) ==
    Cardinality({j \in 1..Len(w) : w[j] < w[k] \/ (w[j] = w[k] /\ j > k)})

\* the place of w[k] in a stable ascending sort of w, from 0
Rank(w, k) ==
    Cardinality({j \in 1..Len(w) : w[j] < w[k] \/ (w[j] = w[k] /\ j < k)})

\* np.argsort(w, kind="mergesort"): the indices of w (from 0) in sorted order
Argsort(w) ==
    [r \in 1..Len(w) |-> (CHOOSE k \in 1..Len(w) : Rank(w, k) = r - 1) - 1]

\* _ordinal_patterns(values, m, tau)
OrdinalPatterns(values, m, tau) ==
    LET n == Len(values)
    IN  IF n < (m - 1) * tau + 1 THEN <<>>
        ELSE [i \in 1..(n - (m - 1) * tau) |->
                LET window == [k \in 1..m |-> values[i + (k - 1) * tau]]
                    inner == Argsort(window)
                IN  Argsort(inner)]

\* Counter(patterns)
Counter(patterns) ==
    [pat \in Range(patterns) |->
        Cardinality({i \in DOMAIN patterns : patterns[i] = pat})]

RECURSIVE Factorial(_)
Factorial(m) == IF m <= 1 THEN 1 ELSE m * Factorial(m - 1)

\* An entropy is kept as the Counter it is computed from: the float is
\* -sum(p ln p) / ln(m!) over p = count / total, which is 0 exactly when the
\* Counter has one pattern, and NaN (0/0) when ln(m!) is 0.
ENaN == [nan |-> TRUE, counts |-> <<>>, m |-> 0]

\* permutation_entropy(series, m, tau)
PermutationEntropy(x, m, tau) ==
    LET patterns == OrdinalPatterns(DropNa(x), m, tau)
    IN  IF patterns = <<>> THEN ENaN
        ELSE IF Factorial(m) = 1 THEN ENaN
        ELSE [nan |-> FALSE, counts |-> Counter(patterns), m |-> m]

\* the window of rolling_permutation_entropy taken one element late
WindowSliceLate(x, p, window) ==
    SubSeq(x, Min2(p + 1, Len(x)) - window + 1, Min2(p + 1, Len(x)))

\* series.iloc[i - window + 1 : i + 1] for the element p = i + 1
WindowSlice(x, p, window) == SubSeq(x, p - window + 1, p)

\* the Series rolling_permutation_entropy returns for window > 0
RollingPermutationEntropy(x, window, m, tau) ==
    [p \in 1..Len(x) |->
        IF p < window THEN ENaN
        ELSE LET window_slice == WindowSlice(x, p, window)
             IN  IF \E q \in DOMAIN window_slice : window_slice[q].nan THEN ENaN
                 ELSE PermutationEntropy(window_slice, m, tau)]

\* the values of w in ascending order
Sorted(w) == [r \in 1..Len(w) |-> w[Argsort(w)[r] + 1]]

\* twice np.median(w)
Median2(w) ==
    LET s == Sorted(w)
        n == Len(w)
    IN  IF n % 2 = 1 THEN 2 * s[(n + 1) \div 2] ELSE s[n \div 2] + s[n \div 2 + 1]

\* four times the median absolute deviation of x
Mad4(x) == Median2([i \in 1..Len(x) |-> Abs(2 * x[i] - Median2(x))])

\* dist <= tol for tol = r * 1.4826 * mad, with r in tenths
WithinTol(dist, r, x) == dist * 400000 <= r * 14826 * Mad4(x)

\* the template vectors of length dim: x[i : i + dim] for every i
Templates(x, dim) ==
    [i \in 1..(Len(x) - dim + 1) |-> [k \in 1..dim |-> x[i + k - 1]]]

\* Chebyshev distance of two vectors
Chebyshev(u, v) == SetMax({Abs(u[k] - v[k]) : k \in DOMAIN u})

\* _match_fraction(embed) inside sample_entropy
MatchFraction(embed, theiler, r, x) ==
    LET n_vec == Len(embed)
        matches == Cardinality({pr \in (1..n_vec) \X (1..n_vec) :
                        /\ pr[1] < pr[2]
                        /\ WithinTol(Chebyshev(embed[pr[1]], embed[pr[2]]), r, x)
                        /\ pr[2] - pr[1] > theiler})
        total == ((n_vec - theiler - 1) * (n_vec - theiler)) \div 2
    IN  IF n_vec <= theiler + 1 THEN QNaN
        ELSE IF total = 0 THEN QNaN
        ELSE Q(matches, total)

\* sample_entropy(series, m, r): -ln(a / b) is kept as the ratio a / b
SampleEntropy(series, m, r) ==
    LET x == DropNa(series)
        n == Len(x)
    IN  IF n <= m + 1 THEN [nan |-> TRUE, ratio |-> QNaN]
        ELSE LET b == MatchFraction(Templates(x, m), m, r, x)
                 a == MatchFraction(Templates(x, m + 1), m, r, x)
             IN  IF a.nan \/ b.nan \/ a.n = 0 \/ b.n = 0
                 THEN [nan |-> TRUE, ratio |-> QNaN]
                 ELSE [nan |-> FALSE, ratio |-> QDiv(a, b)]

----------------------------------------------------------------------------
(* mw/features/ftle.py *)

\* arr[-window:] of a numpy array
LastWindow(x, window) ==
    LET n == Len(x)
    IN  IF window > 0 THEN SubSeq(x, Max2(1, n - window + 1), n)
        ELSE SubSeq(x, Min2(0 - window, n) + 1, n)

\* _delay_embed(x, m, tau)
DelayEmbed(x, m, tau) ==
    LET n == Len(x) - (m - 1) * tau
    IN  IF n <= 0 THEN <<>>
        ELSE [i \in 1..n |-> [k \in 1..m |-> x[i + (k - 1) * tau]]]

\* squared Euclidean distance of two vectors
RECURSIVE SumOver(_, _)
SumOver(f, K) ==
    IF K = {} THEN 0
    ELSE LET k == CHOOSE k \in K : TRUE IN f[k] + SumOver(f, K \ {k})
SqDist(u, v) == SumOver([k \in DOMAIN u |-> (u[k] - v[k]) * (u[k] - v[k])], DOMAIN u)

\* j = argmin(dists) after dists[mask] = inf: the first nearest anchor more
\* than theiler away in index, and the first anchor when all are masked
NearestNeighbour(anchors, i, theiler) ==
    LET open == {c \in DOMAIN anchors : Abs(c - i) > theiler}
    IN  IF open = {} THEN 1
        ELSE LET best == SetMin({SqDist(anchors[i], anchors[c]) : c \in open})
             IN  SetMin({c \in open : SqDist(anchors[i], anchors[c]) = best})

\* An exponent is kept as the squared distances its slopes are fitted to: for
\* each anchor the distances at k = 1..horizon.  The least-squares slope over
\* one point has denominator 0, so every slope is NaN when horizon is 1.
FNaN == [nan |-> TRUE, divergence |-> <<>>]

\* Divergence of every anchor from its nearest neighbour
Divergence(embed, valid, horizon, theiler) ==
    [i \in 1..valid |->
        LET j == NearestNeighbour(SubSeq(embed, 1, valid), i, theiler)
        IN  [k \in 1..horizon |-> SqDist(embed[i + k], embed[j + k])]]

\* ftle_rosenstein giving up only for horizon or fewer vectors
FtleRosensteinOneFewer(series, window, m, tau, horizon, theiler) ==
    LET embed == DelayEmbed(LastWindow(DropNa(series), window), m, tau)
    IN  IF Len(embed) <= horizon THEN FNaN
        ELSE IF horizon <= 1 THEN FNaN
        ELSE [nan |-> FALSE,
              divergence |-> Divergence(embed, Len(embed) - horizon, horizon, theiler)]

\* ftle_rosenstein(series, window, m, tau, horizon, theiler)
FtleRosenstein(series, window, m, tau, horizon, theiler) ==
    LET x == LastWindow(DropNa(series), window)
        embed == DelayEmbed(x, m, tau)
        n_vectors == Len(embed)
        valid == n_vectors - horizon
    IN  IF n_vectors <= horizon + 1 THEN FNaN
        ELSE IF horizon <= 1 THEN FNaN
        ELSE [nan |-> FALSE,
              divergence |-> Divergence(embed, valid, horizon, theiler)]

\* a rolling exponent with min_periods = 1: partial windows and windows with
\* missing values are given to the point estimator as they are
RollingFtleRosensteinPartial(series, window, m, tau, horizon, theiler) ==
    [p \in 1..Len(series) |->
        FtleRosenstein(SubSeq(series, Max2(1, p - window + 1), p), window,
                       m, tau, horizon, theiler)]

\* series.rolling(window, min_periods=window).apply(_apply) for window > 0,
\* where _apply(x) is ftle_rosenstein(x, window=len(x), ...)
RollingFtleRosenstein(series, window, m, tau, horizon, theiler) ==
    [p \in 1..Len(series) |->
        IF p < window THEN FNaN
        ELSE LET w == WindowSlice(series, p, window)
             IN  IF \E q \in DOMAIN w : w[q].nan THEN FNaN
                 ELSE FtleRosenstein(w, Len(w), m, tau, horizon, theiler)]

----------------------------------------------------------------------------
(* The feature functions: arguments and actions *)

FeatureFloats == {Num(0), Num(1), Num(2), NaN}
SeriesUpTo(values, n) == UNION {[1..k -> values] : k \in 0..n}
WinArgs == (0 - 1)..MaxWin

FeatIdle ==
    /\ f_op = "none"
    /\ f_x = <<>>
    /\ f_arg = NoDict
    /\ f_raised = "none"
    /\ f_out = <<>>

\* a call that ends by raising exc, or by returning out
Outcome(op, x, arg, exc, out) ==
    /\ f_op' = op
    /\ f_x' = x
    /\ f_arg' = arg
    /\ f_raised' = exc
    /\ f_out' = IF exc = "none" THEN out ELSE <<>>
    /\ UNCHANGED <<smVars, chainVars, scoreVars, mlVars, ioVars>>

\* the check "if p <= 0: raise ValueError"
PositiveOrValueError(p) == IF p <= 0 THEN "ValueError" ELSE "none"

MinmaxCausalCall ==
    /\ f_op = "none"
    /\ \E x \in SeriesUpTo(FeatureFloats, MaxSeries), win \in WinArgs :
           Outcome("minmax_causal", x, [win |-> win],
                   PositiveOrValueError(win), MinmaxCausal(x, win))

EmaCall ==
    /\ f_op = "none"
    /\ \E x \in SeriesUpTo(FeatureFloats, MaxSeries), span \in WinArgs :
           Outcome("ema", x, [span |-> span],
                   PositiveOrValueError(span), Ema(x, span))

BinaryFloats == {Num(0), Num(1), NaN}
WindowArgs == (0 - 1)..MaxSamples

\* the two columns of a frame: series over the same positions
Frames(n) ==
    UNION {[error : [1..k -> BinaryFloats], latency : [1..k -> BinaryFloats]] : k \in 0..n}

PipelineCall ==
    /\ f_op = "none"
    /\ \E df \in Frames(MaxSeries) :
          Outcome("pipeline", df, [span |-> 3, win |-> 3], "none",
                  Pipeline(df.error, df.latency))

PermutationEntropyCall ==
    /\ f_op = "none"
    /\ \E x \in SeriesUpTo(FeatureFloats, MaxSamples), m \in 1..MaxM, tau \in {1, 2} :
           Outcome("permutation_entropy", x, [m |-> m, tau |-> tau],
                   "none", PermutationEntropy(x, m, tau))

RollingPermutationEntropyCall ==
    /\ f_op = "none"
    /\ \E x \in SeriesUpTo(BinaryFloats, MaxSamples), window \in WindowArgs,
          m \in 1..MaxM, tau \in {1, 2} :
           Outcome("rolling_permutation_entropy", x,
                   [window |-> window, m |-> m, tau |-> tau],
                   PositiveOrValueError(window),
                   RollingPermutationEntropy(x, window, m, tau))

SampleEntropyCall ==
    /\ f_op = "none"
    /\ \E x \in SeriesUpTo(FeatureFloats, MaxSamples), m \in 1..2, r \in {2, 10} :
           Outcome("sample_entropy", x, [m |-> m, r |-> r],
                   "none", SampleEntropy(x, m, r))

FtleArgs ==
    [window : WindowArgs, m : 1..2, tau : {1, 2}, horizon : {1, 2},
     theiler : {0, 1}]

\* ftle_rosenstein has no check of window
FtleRosensteinCall ==
    /\ f_op = "none"
    /\ \E x \in SeriesUpTo(BinaryFloats, MaxSamples), a \in FtleArgs :
           Outcome("ftle_rosenstein", x, a, "none",
                   FtleRosenstein(x, a.window, a.m, a.tau, a.horizon, a.theiler))

\* Series.rolling rejects a negative window; for window = 0 every window is
\* empty, and either pandas rejects it or each output is ftle_rosenstein of an
\* empty series
RollingFtleRosensteinCall ==
    /\ f_op = "none"
    /\ \E x \in SeriesUpTo(BinaryFloats, MaxSamples), a \in FtleArgs :
           \E exc \in IF a.window < 0 THEN {"ValueError"}
                      ELSE IF a.window = 0 THEN {"ValueError", "none"}
                      ELSE {"none"} :
               Outcome("rolling_ftle_rosenstein", x, a, exc,
                       IF a.window = 0 THEN [p \in 1..Len(x) |-> FNaN]
                       ELSE RollingFtleRosenstein(x, a.window, a.m, a.tau,
                                                  a.horizon, a.theiler))

----------------------------------------------------------------------------
(* mw/live/minute_loop.py: run_minute_loop *)

\* the list steps with persist before compute
StepsPersistFirst ==
    <<"poll", "freshness", "persist", "compute", "log", "plot", "health">>

\* a loop that still runs plot on stale data
skip_when_stale_without_plot == {"compute", "persist", "log"}

\* the names of the list steps, in order
Steps == <<"poll", "freshness", "compute", "persist", "log", "plot", "health">>

skip_when_stale == {"compute", "persist", "log", "plot"}

\* MinuteLoopParams().offsets
DEFAULT_OFFSETS ==
    [poll |-> 3, compute |-> 5, persist |-> 6, log |-> 7, plot |-> 8, health |-> 9]

\* MinuteLoopParams().freshness_stale_threshold
STALE_THRESHOLD == 180

\* offsets.get(name, 0)
OffsetOf(offsets, name) == IF name \in DOMAIN offsets THEN offsets[name] ELSE 0

\* "compute" if name == "freshness" else name
OffsetName(name) == IF name = "freshness" THEN "compute" ELSE name

\* a loop that stops at the first failure, whatever the step
InCriticalAlways(name, critical) == TRUE

\* a loop that never stops at a failure
InCriticalNever(name, critical) == FALSE

\* name in critical_steps
InCritical(name, critical) == name \in critical

\* should_degrade(compute_freshness(last_ts), thresh)
Degrade(last_bar) == last_bar.missing \/ last_bar.age > STALE_THRESHOLD

\* the exception a step raises
ExcOf(name) == [raised_by |-> name]

\* the arguments of a call: params, the optional callables, and what
\* last_bar_ts_fn returns
ParamsArgs ==
    {[kind |-> "None", offsets |-> DEFAULT_OFFSETS, critical_steps |-> {}],
     [kind |-> "Params", offsets |-> DEFAULT_OFFSETS, critical_steps |-> {}],
     [kind |-> "dict", offsets |-> NoDict, critical_steps |-> {"poll"}]}
    \cup [kind : {"MinuteLoopParams"},
          offsets : {DEFAULT_OFFSETS, NoDict, [poll |-> 1, compute |-> 2]},
          critical_steps : {{}, {"poll"}, {"compute", "plot"}, {"freshness"}}]

LastBarArgs ==
    [raises : {TRUE}, missing : {FALSE}, age : {0}]
    \cup [raises : {FALSE}, missing : {TRUE}, age : {0}]
    \cup [raises : {FALSE}, missing : {FALSE}, age : {STALE_THRESHOLD, STALE_THRESHOLD + 1}]

FnArgs == [error_fn : BOOLEAN, last_bar_ts_fn : BOOLEAN, stale_fn : BOOLEAN]

\* seconds after the start of the minute at which the call is made
StartSeconds == {0, 4}

\* seconds a step takes
Durations == {0, 2}

NoWait == [step |-> "none", slept |-> 0, sleep_for |-> 0]

LoopIdle ==
    /\ ml_pc = "idle"
    /\ ml_raised = "none"
    /\ ml_offsets = DEFAULT_OFFSETS
    /\ ml_critical = {}
    /\ ml_fns = [error_fn |-> FALSE, last_bar_ts_fn |-> FALSE, stale_fn |-> FALSE]
    /\ ml_last_bar = [raises |-> FALSE, missing |-> TRUE, age |-> 0]
    /\ ml_idx = 1
    /\ ml_stale = FALSE
    /\ ml_outcome = [name \in Range(Steps) |-> "notrun"]
    /\ ml_calls = <<>>
    /\ ml_reports = <<>>
    /\ ml_stale_calls = 0
    /\ ml_now = 0
    /\ ml_waits = 0
    /\ ml_last_wait = NoWait

\* lines 114-131: the call resolves params, or raises TypeError for any other
\* kind of object
RunMinuteLoop ==
    /\ ml_pc = "idle"
    /\ \E params \in ParamsArgs, fns \in FnArgs, last_bar \in LastBarArgs,
          start \in StartSeconds :
          /\ (~fns.last_bar_ts_fn) => last_bar = ml_last_bar
          /\ ml_fns' = fns
          /\ ml_last_bar' = last_bar
          /\ ml_now' = start
          /\ IF params.kind = "dict"
             THEN /\ ml_pc' = "raised"
                  /\ ml_raised' = "TypeError"
                  /\ UNCHANGED <<ml_offsets, ml_critical>>
             ELSE /\ ml_pc' = "loop"
                  /\ ml_raised' = "none"
                  /\ ml_offsets' = params.offsets
                  /\ ml_critical' = params.critical_steps
    /\ UNCHANGED <<ml_idx, ml_stale, ml_outcome, ml_calls, ml_reports,
                   ml_stale_calls, ml_waits, ml_last_wait>>
    /\ UNCHANGED <<smVars, chainVars, scoreVars, featVars, ioVars>>

\* the loop moves to the next step, or is over after the last one
Advance ==
    /\ ml_idx' = ml_idx + 1
    /\ ml_pc' = IF ml_idx = Len(Steps) THEN "returned" ELSE "loop"

\* lines 166-172: the wait before a step, then the step is skipped or started
WaitAndInvoke ==
    /\ ml_pc = "loop"
    /\ LET name == Steps[ml_idx]
           target == OffsetOf(ml_offsets, OffsetName(name))
           sleep_for == target - ml_now
           slept == Max2(0, sleep_for)
       IN  /\ ml_now' = ml_now + slept
           /\ ml_waits' = ml_waits + 1
           /\ ml_last_wait' = [step |-> name, slept |-> slept, sleep_for |-> sleep_for]
           /\ IF ml_stale /\ name \in skip_when_stale
              THEN /\ ml_outcome' = [ml_outcome EXCEPT ![name] = "skipped"]
                   /\ Advance
                   /\ UNCHANGED ml_calls
              ELSE /\ ml_outcome' = [ml_outcome EXCEPT ![name] = "running"]
                   /\ ml_pc' = "step"
                   /\ ml_calls' = IF name = "freshness" THEN ml_calls
                                  ELSE Append(ml_calls, name)
                   /\ UNCHANGED ml_idx
    /\ UNCHANGED <<ml_raised, ml_offsets, ml_critical, ml_fns, ml_last_bar, ml_stale,
                   ml_reports, ml_stale_calls>>
    /\ UNCHANGED <<smVars, chainVars, scoreVars, featVars, ioVars>>

\* lines 133-142 and 173-178: the step returns; the freshness check sets stale
\* and calls stale_fn
StepReturns ==
    /\ ml_pc = "step"
    /\ LET name == Steps[ml_idx]
           checks == name = "freshness" /\ ml_fns.last_bar_ts_fn
       IN  /\ checks => ~ml_last_bar.raises
           /\ \E d \in Durations : ml_now' = ml_now + d
           /\ ml_outcome' = [ml_outcome EXCEPT ![name] = "ok"]
           /\ IF checks /\ Degrade(ml_last_bar)
              THEN /\ ml_stale' = TRUE
                   /\ ml_stale_calls' = ml_stale_calls + (IF ml_fns.stale_fn THEN 1 ELSE 0)
              ELSE UNCHANGED <<ml_stale, ml_stale_calls>>
           /\ Advance
    /\ UNCHANGED <<ml_raised, ml_offsets, ml_critical, ml_fns, ml_last_bar, ml_calls,
                   ml_reports, ml_waits, ml_last_wait>>
    /\ UNCHANGED <<smVars, chainVars, scoreVars, featVars, ioVars>>

\* lines 179-184: the step raises an Exception; it is reported to error_fn, and
\* the loop stops when the step is critical. The freshness check raises when
\* last_bar_ts_fn raises (line 137), or when stale_fn raises (line 142), which
\* is after stale was set
StepRaises ==
    /\ ml_pc = "step"
    /\ LET name == Steps[ml_idx]
           in_stale_fn == name = "freshness" /\ ~ml_last_bar.raises
       IN  /\ name = "freshness" =>
                 /\ ml_fns.last_bar_ts_fn
                 /\ ml_last_bar.raises \/ (Degrade(ml_last_bar) /\ ml_fns.stale_fn)
           /\ \E d \in Durations : ml_now' = ml_now + d
           /\ ml_outcome' = [ml_outcome EXCEPT ![name] = "raised"]
           /\ ml_reports' = IF ml_fns.error_fn
                            THEN Append(ml_reports, [name |-> name, exc |-> ExcOf(name)])
                            ELSE ml_reports
           /\ IF in_stale_fn
              THEN ml_stale' = TRUE /\ ml_stale_calls' = ml_stale_calls + 1
              ELSE UNCHANGED <<ml_stale, ml_stale_calls>>
           /\ IF InCritical(name, ml_critical)
              THEN ml_pc' = "returned" /\ UNCHANGED ml_idx
              ELSE Advance
    /\ UNCHANGED <<ml_raised, ml_offsets, ml_critical, ml_fns, ml_last_bar,
                   ml_calls, ml_waits, ml_last_wait>>
    /\ UNCHANGED <<smVars, chainVars, scoreVars, featVars, ioVars>>
----------------------------------------------------------------------------
(* mw/adapters: polygon_rest.py and polygon_quotes.py *)

\* Durations are in tenths of a second.  A response is what get_call gives:
\* its status code (0: get_call raised requests.ConnectionError), its
\* Retry-After header ("none" when absent), whether its body is JSON, the
\* results of its body and whether the body has a next_url.
max_attempts == 3
MaxPages == 2
NoSleep == 0 - 1

Response(status, retry_after, json_ok, payload, next_url) ==
    [status |-> status, retry_after |-> retry_after, json_ok |-> json_ok,
     payload |-> payload, next_url |-> next_url]

Responses ==
    {Response(200, "none", TRUE, p, n) : p \in {"a", "b"}, n \in BOOLEAN}
    \cup {Response(200, "none", FALSE, "a", FALSE),
          Response(404, "none", TRUE, "a", FALSE),
          Response(0, "none", FALSE, "a", FALSE),
          Response(500, "none", TRUE, "a", FALSE),
          Response(500, "4", TRUE, "a", FALSE)}
    \cup {Response(429, h, TRUE, "a", FALSE) : h \in {"none", "4", "0", "abc"}}

\* random.uniform(0, 1)
Jitters == {0, 5}

\* lines 55 of polygon_rest.py and 56 of polygon_quotes.py
Retryable(status) == status = 429 \/ status >= 500

\* (2**attempt) + random.uniform(0, 1)
Backoff(attempt, jitter) == 10 * (2 ^ attempt) + jitter

\* float(retry_after), 0 where it raises ValueError
ParseSeconds(header) ==
    IF header = "4" THEN 40 ELSE 0

\* polygon_rest.py lines 58-67
SleepTime(resp, attempt, jitter) ==
    IF resp.retry_after # "none"
    THEN IF ParseSeconds(resp.retry_after) <= 0 THEN Backoff(attempt, jitter)
         ELSE ParseSeconds(resp.retry_after)
    ELSE Backoff(attempt, jitter)

\* polygon_quotes.py line 59
QuotesSleepTime(resp, attempt, jitter) == Backoff(attempt, jitter)

\* requests.Response.raise_for_status raises HTTPError for 4xx and 5xx
RaisesForStatus(status) == status >= 400

HttpIdle ==
    /\ h_pc = "idle"
    /\ h_fn = "none"
    /\ h_attempt = 0
    /\ h_page = 1
    /\ h_requests = 0
    /\ h_log = <<>>
    /\ h_results = <<>>
    /\ h_raised = "none"

\* the call, up to the first request: _get_api_key raises RuntimeError when
\* POLYGON_API_KEY is not set
Fetch(fn) ==
    /\ h_pc = "idle"
    /\ h_fn' = fn
    /\ \E key \in BOOLEAN :
          IF key THEN h_pc' = "request" /\ h_raised' = "none"
          ELSE h_pc' = "raised" /\ h_raised' = "RuntimeError"
    /\ UNCHANGED <<h_attempt, h_page, h_requests, h_log, h_results>>
    /\ UNCHANGED <<smVars, chainVars, scoreVars, featVars, mlVars, fileVars, barVars>>

FetchFxAggMinute == Fetch("fetch_fx_agg_minute")

FetchQuotes == Fetch("fetch_quotes")

\* the call ends with an exception after the response resp
EndsRaising(resp, exc) ==
    /\ h_pc' = "raised"
    /\ h_raised' = exc
    /\ h_log' = Append(h_log, [resp |-> resp, slept |-> NoSleep])
    /\ UNCHANGED <<h_attempt, h_page, h_results>>

\* time.sleep(t); continue
SleepsAndRetries(resp, t) ==
    /\ h_log' = Append(h_log, [resp |-> resp, slept |-> t])
    /\ h_attempt' = h_attempt + 1
    /\ UNCHANGED <<h_pc, h_page, h_results, h_raised>>

\* polygon_rest.py lines 53-71 and 107-116: one iteration of the loop of
\* _request_with_retry, and what fetch_fx_agg_minute does with its outcome:
\* every requests.RequestException becomes a RuntimeError, and so does a body
\* that is not JSON
RequestWithRetry ==
    /\ h_pc = "request"
    /\ h_fn = "fetch_fx_agg_minute"
    /\ h_requests' = h_requests + 1
    /\ \E resp \in Responses, jitter \in Jitters :
          IF resp.status = 0 THEN EndsRaising(resp, "RuntimeError")
          ELSE IF Retryable(resp.status)
          THEN IF h_attempt = max_attempts - 1
               THEN EndsRaising(resp, "RuntimeError")
               ELSE SleepsAndRetries(resp, SleepTime(resp, h_attempt, jitter))
          ELSE IF RaisesForStatus(resp.status) \/ ~resp.json_ok
          THEN EndsRaising(resp, "RuntimeError")
          ELSE /\ h_pc' = "returned"
               /\ h_results' = <<resp.payload>>
               /\ h_log' = Append(h_log, [resp |-> resp, slept |-> NoSleep])
               /\ UNCHANGED <<h_attempt, h_page, h_raised>>
    /\ UNCHANGED h_fn
    /\ UNCHANGED <<smVars, chainVars, scoreVars, featVars, mlVars, fileVars, barVars>>

\* polygon_quotes.py lines 52-77: one iteration of the retry loop of
\* fetch_quotes, and after a good response the step to the next page
QuotesRequest ==
    /\ h_pc = "request"
    /\ h_fn = "fetch_quotes"
    /\ h_requests' = h_requests + 1
    /\ \E resp \in Responses, jitter \in Jitters :
          /\ resp.next_url => h_page < MaxPages
          /\ IF resp.status = 0 THEN EndsRaising(resp, "ConnectionError")
             ELSE IF Retryable(resp.status)
             THEN IF h_attempt = 2
                  THEN EndsRaising(resp, "HTTPError")
                  ELSE SleepsAndRetries(resp, QuotesSleepTime(resp, h_attempt, jitter))
             ELSE IF RaisesForStatus(resp.status) THEN EndsRaising(resp, "HTTPError")
             ELSE IF ~resp.json_ok THEN EndsRaising(resp, "ValueError")
             ELSE /\ h_results' = Append(h_results, resp.payload)
                  /\ IF resp.next_url
                     THEN /\ h_page' = h_page + 1
                          /\ h_attempt' = 0
                          /\ h_log' = <<>>
                          /\ UNCHANGED h_pc
                     ELSE /\ h_pc' = "returned"
                          /\ h_log' = Append(h_log, [resp |-> resp, slept |-> NoSleep])
                          /\ UNCHANGED <<h_attempt, h_page>>
                  /\ UNCHANGED h_raised
    /\ UNCHANGED h_fn
    /\ UNCHANGED <<smVars, chainVars, scoreVars, featVars, mlVars, fileVars, barVars>>

----------------------------------------------------------------------------
(* mw/utils/persistence.py: write_parquet and write_json *)

\* A file is absent, or holds the chunks written to it so far.
MaxWrites == 2
NoFile == [exists |-> FALSE, data |-> <<>>]
File(data) == [exists |-> TRUE, data |-> data]
Objects == {<<"a">>, <<"a", "b">>, <<"b", "a">>}

FilesIdle ==
    /\ w_pc = "idle"
    /\ w_fn = "none"
    /\ w_obj = <<>>
    /\ w_target = NoFile
    /\ w_prev = NoFile
    /\ w_temp = NoFile
    /\ w_left = 0
    /\ w_raised = "none"
    /\ w_calls = 0

\* os.remove(temp_name) inside try/except OSError: pass: the file is removed,
\* or os.remove raises and the file stays
Removed(temp) == {NoFile, temp}

\* whether the exception, raised while the temporary file is filled, reaches
\* the handler that removes the file: write_parquet fills it inside the try
\* of lines 42-51 (except OSError), write_json before the try of line 72
Handled(fn, exc) == fn = "write_parquet" /\ exc = "OSError"

\* lines 33-40 and 61-66: the call up to the creation of the temporary file,
\* which may itself raise OSError
Write(fn) ==
    /\ w_pc \in {"idle", "returned", "raised"}
    /\ w_calls < MaxWrites
    /\ w_calls' = w_calls + 1
    /\ w_fn' = fn
    /\ w_prev' = w_target
    /\ w_left' = w_left + (IF w_temp.exists THEN 1 ELSE 0)
    /\ \E obj \in Objects, created \in BOOLEAN :
          /\ w_obj' = obj
          /\ IF created
             THEN w_pc' = "created" /\ w_temp' = File(<<>>) /\ w_raised' = "none"
             ELSE w_pc' = "raised" /\ w_temp' = NoFile /\ w_raised' = "OSError"
    /\ UNCHANGED w_target
    /\ UNCHANGED <<smVars, chainVars, scoreVars, featVars, mlVars, httpVars, barVars>>

WriteParquet == Write("write_parquet")

WriteJson == Write("write_json")

\* lines 43 and 67-69: the next chunk of the content reaches the temporary file
Serialize ==
    /\ w_pc = "created"
    /\ w_temp' = File(Append(w_temp.data, w_obj[Len(w_temp.data) + 1]))
    /\ w_pc' = IF Len(w_temp.data) + 1 = Len(w_obj) THEN "serialized" ELSE "created"
    /\ UNCHANGED <<w_fn, w_obj, w_target, w_prev, w_left, w_raised, w_calls>>
    /\ UNCHANGED <<smVars, chainVars, scoreVars, featVars, mlVars, httpVars, barVars>>

\* lines 43-51 and 67-69: to_parquet, json.dump, flush or fsync raises, an
\* OSError (the disk is full) or another exception (the object cannot be
\* serialized)
SerializeFails ==
    /\ w_pc = "created"
    /\ \E exc \in {"OSError", "TypeError"} :
          /\ w_raised' = exc
          /\ IF Handled(w_fn, exc)
             THEN w_temp' \in Removed(w_temp)
             ELSE UNCHANGED w_temp
    /\ w_pc' = "raised"
    /\ UNCHANGED <<w_fn, w_obj, w_target, w_prev, w_left, w_calls>>
    /\ UNCHANGED <<smVars, chainVars, scoreVars, featVars, mlVars, httpVars, barVars>>

\* lines 44-51 and 73-80: os.replace moves the temporary file onto the target
\* in one step, or raises OSError and the handler removes the temporary file
Replace ==
    /\ w_pc = "serialized"
    /\ \/ /\ w_target' = w_temp
          /\ w_temp' = NoFile
          /\ w_pc' = "returned"
          /\ UNCHANGED w_raised
       \/ /\ w_temp' \in Removed(w_temp)
          /\ w_pc' = "raised"
          /\ w_raised' = "OSError"
          /\ UNCHANGED w_target
    /\ UNCHANGED <<w_fn, w_obj, w_prev, w_left, w_calls>>
    /\ UNCHANGED <<smVars, chainVars, scoreVars, featVars, mlVars, httpVars, barVars>>

\* the process is interrupted in the middle of a call
Interrupt ==
    /\ w_pc \in {"created", "serialized"}
    /\ w_pc' = "killed"
    /\ UNCHANGED <<w_fn, w_obj, w_target, w_prev, w_temp, w_left, w_raised, w_calls>>
    /\ UNCHANGED <<smVars, chainVars, scoreVars, featVars, mlVars, httpVars, barVars>>

----------------------------------------------------------------------------
(* mw/live/minute_loop.py: _append_polled_bars *)

MaxPolls == 2
MaxBars == 3
MaxMinute == 3
NoTs == 0 - 1

\* the frames polled: up to MaxBars bars, in any order, duplicates included;
\* None and the empty frame are the empty sequence
Polls == UNION {[1..n -> 0..MaxMinute] : n \in 0..MaxBars}

BarsIdle ==
    /\ b_last = NoTs
    /\ b_gap_events = <<>>
    /\ b_gap_count = 0
    /\ b_dup_count = 0
    /\ b_late_events = <<>>
    /\ b_seen_bars = 0
    /\ b_stored = {}
    /\ b_first = NoTs
    /\ b_before = NoTs
    /\ b_logged = TRUE
    /\ b_polls = 0

\* the elements of a set of timestamps in increasing order
RECURSIVE Ascending(_)
Ascending(S) ==
    IF S = {} THEN <<>> ELSE <<SetMin(S)>> \o Ascending(S \ {SetMin(S)})

\* the minutes after last and before first_ts: the loop of lines 71-76
MissingBefore(last, first_ts) == [k \in 1..(first_ts - last - 1) |-> last + k]

\* log_gap for each timestamp, when there is a logger
LogGaps(logger, missing) ==
    /\ b_gap_events' = IF logger THEN b_gap_events \o missing ELSE b_gap_events
    /\ b_gap_count' = IF logger THEN b_gap_count + Len(missing) ELSE b_gap_count

\* lines 45-50: nothing was polled
EmptyPoll(logger) ==
    /\ IF b_last # NoTs /\ logger
       THEN LogGaps(logger, <<b_last + 1>>) /\ b_last' = b_last + 1
       ELSE UNCHANGED <<b_gap_events, b_gap_count, b_last>>
    /\ UNCHANGED <<b_dup_count, b_late_events, b_seen_bars, b_stored, b_first>>

\* lines 52-91: duplicates and late bars are logged and dropped, the minutes
\* before the first new bar are logged as gaps, and the new bars are stored
BarsPolled(new, logger) ==
    LET distinct == Range(new)
        late == IF b_last = NoTs THEN {} ELSE {t \in distinct : t <= b_last}
        fresh == distinct \ late
    IN  /\ b_dup_count' = IF logger THEN b_dup_count + (Len(new) - Cardinality(distinct))
                          ELSE b_dup_count
        /\ b_late_events' = IF logger THEN b_late_events \o Ascending(late)
                            ELSE b_late_events
        /\ IF b_last # NoTs /\ fresh = {}
           THEN /\ LogGaps(logger, <<b_last + 1>>)
                /\ b_last' = b_last + 1
                /\ UNCHANGED <<b_seen_bars, b_stored, b_first>>
           ELSE /\ IF b_last # NoTs
                   THEN LogGaps(logger, MissingBefore(b_last, SetMin(fresh)))
                   ELSE UNCHANGED <<b_gap_events, b_gap_count>>
                /\ b_last' = SetMax(fresh)
                /\ b_seen_bars' = IF logger THEN b_seen_bars + Cardinality(fresh)
                                  ELSE b_seen_bars
                /\ b_stored' = b_stored \cup fresh
                /\ b_first' = IF b_first = NoTs THEN SetMin(fresh) ELSE b_first

\* _append_polled_bars(new, logger, symbol)
AppendPolledBars ==
    /\ b_polls < MaxPolls
    /\ b_polls' = b_polls + 1
    /\ b_before' = b_last
    /\ \E new \in Polls, logger \in BOOLEAN :
          /\ b_logged' = (b_logged /\ logger)
          /\ IF new = <<>> THEN EmptyPoll(logger) ELSE BarsPolled(new, logger)
    /\ UNCHANGED <<smVars, chainVars, scoreVars, featVars, mlVars, httpVars, fileVars>>

----------------------------------------------------------------------------
(* Specifications *)

Init == SMIdle /\ ChainIdle /\ ScoreIdle /\ FeatIdle /\ LoopIdle /\ HttpIdle /\ FilesIdle
        /\ BarsIdle

\* one call of state_machine
Next == Call \/ Loop \/ Return

Spec == Init /\ [][Next]_vars

\* one call of state_machine with a timestamps argument
NextTimestamps == CallWithTimestamps \/ Loop \/ Return

SpecTimestamps == Init /\ [][NextTimestamps]_vars

\* a caller classifying a Series in successive calls
NextChain == Call \/ Loop \/ Return \/ CallAgain

SpecChain == Init /\ [][NextChain]_vars

\* state_machine(scores) on Series of up to ExampleLen scores
NextExample == CallDefaults \/ LoopExample \/ Return

SpecExample == Init /\ [][NextExample]_vars

\* one call of score_tradability
NextScore == Score

SpecScore == Init /\ [][NextScore]_vars

\* one call of minmax_causal or ema, or of both and score_tradability
NextScaling == MinmaxCausalCall \/ EmaCall \/ PipelineCall

SpecScaling == Init /\ [][NextScaling]_vars

\* one call of an entropy estimator
NextEntropy == PermutationEntropyCall \/ RollingPermutationEntropyCall \/ SampleEntropyCall

SpecEntropy == Init /\ [][NextEntropy]_vars

\* one call of a point estimator
NextPoint == PermutationEntropyCall \/ SampleEntropyCall \/ FtleRosensteinCall

SpecPoint == Init /\ [][NextPoint]_vars

\* one call of run_minute_loop
NextMinuteLoop == RunMinuteLoop \/ WaitAndInvoke \/ StepReturns \/ StepRaises

SpecMinuteLoop == Init /\ [][NextMinuteLoop]_vars

\* one call of an FTLE estimator
NextFtle == FtleRosensteinCall \/ RollingFtleRosensteinCall

SpecFtle == Init /\ [][NextFtle]_vars

\* one call of fetch_fx_agg_minute
NextFetch == FetchFxAggMinute \/ RequestWithRetry

SpecFetch == Init /\ [][NextFetch]_vars

\* one call of fetch_quotes
NextQuotes == FetchQuotes \/ QuotesRequest

SpecQuotes == Init /\ [][NextQuotes]_vars

\* calls of write_parquet and write_json, one after the other
NextPersist ==
    WriteParquet \/ WriteJson \/ Serialize \/ SerializeFails \/ Replace \/ Interrupt

SpecPersist == Init /\ [][NextPersist]_vars

\* polls handled by _append_polled_bars, one after the other
NextBars == AppendPolledBars

SpecBars == Init /\ [][NextBars]_vars

----------------------------------------------------------------------------
(* Claims about state_machine *)

Accepted == {p \in DOMAIN log : log[p].accepted}

\* C1: within one call, any two accepted transitions are at least
\* min_flip_spacing positions apart.
FlipsAreSpaced ==
    \A a \in Accepted : \A b \in Accepted :
        a < b => b - a >= hysteresis.min_flip_spacing

\* two transitions accepted exactly min_flip_spacing >= 2 apart
FlipsAreSpacedWitness ==
    /\ hysteresis.min_flip_spacing >= 2
    /\ \E a \in Accepted : \E b \in Accepted : b - a = hysteresis.min_flip_spacing

ExampleScores ==
    <<Num(50), Num(70), Num(70), Num(30), Num(30), Num(30), Num(70), Num(70), Num(70)>>
ExampleStates ==
    <<"YELLOW", "YELLOW", "GREEN", "GREEN", "GREEN", "RED", "RED", "RED", "GREEN">>

\* C2: with the defaults and no prev_state, the example scores give the example
\* states; the RED run blocked at positions 3 and 4 keeps accumulating and is
\* accepted at position 5, the first where the spacing condition holds.
HysteresisExample ==
    /\ \A n \in 0..ExampleLen :
          scores = SubSeq(ExampleScores, 1, n) => states = SubSeq(ExampleStates, 1, n)
    /\ scores = ExampleScores =>
          /\ pc = "done" => result = ExampleStates
          /\ log[4].desired = "RED" /\ ~log[4].spacing_ok /\ ~log[4].accepted
          /\ log[5].desired = "RED" /\ ~log[5].spacing_ok /\ ~log[5].accepted
          /\ log[6].down = 3 /\ log[6].spacing_ok /\ log[6].accepted

HysteresisExampleWitness ==
    /\ pc = "done"
    /\ thresholds = DEFAULT_THRESH /\ hysteresis = DEFAULT_HYST /\ prev_state = "None"
    /\ scores = ExampleScores
    /\ result = ExampleStates

\* C3 as claimed: a transition that follows an accepted one is accepted only
\* when strictly more than min_flip_spacing observations have elapsed.
AcceptedOnlyStrictlyAfterSpacing ==
    \A p \in Accepted :
        (\E a \in Accepted : a < p) =>
            (p - 1) - log[p].last_before > hysteresis.min_flip_spacing

\* C3 as amended: a transition at position i is accepted only when
\* i - last_flip_idx >= min_flip_spacing.
AcceptedOnlyAfterSpacing ==
    \A p \in DOMAIN log :
        log[p].accepted =>
            /\ log[p].spacing_ok
            /\ (p - 1) - log[p].last_before >= hysteresis.min_flip_spacing

\* a transition accepted exactly min_flip_spacing >= 1 after the one before it
AcceptedOnlyAfterSpacingWitness ==
    \E p \in Accepted :
        /\ hysteresis.min_flip_spacing >= 1
        /\ \E a \in Accepted : a < p /\ log[p].last_before = a - 1
        /\ (p - 1) - log[p].last_before = hysteresis.min_flip_spacing

\* the k scores ending at element p all satisfy the comparison
RunOf(p, k, Cmp(_, _), tau) ==
    /\ p >= k
    /\ \A q \in (p - k + 1)..p : Cmp(scores[q], tau)

\* C4: the state changes to GREEN only after k_up scores >= tau_g in a row, to
\* RED only after k_down scores <= tau_y in a row, and otherwise to YELLOW.
TransitionsNeedEvidence ==
    (hysteresis.k_up >= 1 /\ hysteresis.k_down >= 1) =>
        \A p \in Accepted :
            /\ states[p] = "GREEN" => RunOf(p, hysteresis.k_up, GE, thresholds.tau_g)
            /\ states[p] = "RED" => RunOf(p, hysteresis.k_down, LE, thresholds.tau_y)
            /\ states[p] \in States3

\* a change to GREEN with k_up = 2 and a change to RED with k_down = 2 in one call
TransitionsNeedEvidenceWitness ==
    /\ hysteresis.k_up = 2 /\ hysteresis.k_down = 2
    /\ \E p \in Accepted : states[p] = "GREEN"
    /\ \E p \in Accepted : states[p] = "RED"

EmittedBefore(p) == IF p = 1 THEN InitialState(prev_state) ELSE states[p - 1]

\* C5: one state per score; the state emitted is the current one, which changes
\* only where a transition is accepted, and is one of RED, YELLOW, GREEN.
EmitsDebouncedState ==
    /\ Len(states) = Len(scores)
    /\ pc = "done" => result = states
    /\ \A p \in DOMAIN states :
          /\ states[p] = IF log[p].accepted THEN log[p].desired ELSE EmittedBefore(p)
          /\ states[p] # EmittedBefore(p) => log[p].accepted
          /\ states[p] \in States3

\* a returned Series with a position where the desired state was held back
EmitsDebouncedStateWitness ==
    /\ pc = "done" /\ Len(result) >= 2
    /\ \E p \in DOMAIN log : ~log[p].accepted /\ log[p].desired # result[p]
    /\ \E p \in DOMAIN log : log[p].accepted

\* the flips of a chain, seen from the caller, respect the spacing
ChainFlipsAreSpaced ==
    \A a \in DOMAIN allFlips : \A b \in DOMAIN allFlips :
        a < b => allFlips[b] - allFlips[a] >= hysteresis.min_flip_spacing

\* C6: a Series classified in successive calls, each receiving what the one
\* before returned, gets the states of a single call over the whole Series, and
\* the spacing rule holds across the call boundaries.
ChunkedEqualsSingleCall ==
    pc = "done" =>
        /\ allStates = StateMachine(allScores, firstPrev, thresholds, hysteresis)
        /\ ChainFlipsAreSpaced

\* C7: a call with a timestamps argument ends with a TypeError before any score
\* is classified.
TimestampsRejected ==
    timestamps # "None" => (raised = "TypeError" /\ states = <<>>)

CurrentContext ==
    [current_state |-> current_state, last_flip_idx |-> last_flip_idx,
     up_count |-> up_count, down_count |-> down_count]

\* the least, the middle and the greatest score strictly between the thresholds
StrictlyBetween ==
    {m \in {thresholds.tau_y + 1, (thresholds.tau_y + thresholds.tau_g) \div 2,
            thresholds.tau_g - 1} : thresholds.tau_y < m /\ m < thresholds.tau_g}

FirstObservationCanFlip ==
    Len(log) >= 1 =>
        /\ log[1].before = (IF prev_state = "None" THEN "YELLOW" ELSE prev_state)
        /\ log[1].last_before = 0 - hysteresis.min_flip_spacing
        /\ log[1].spacing_ok
        /\ log[1].desired # log[1].before => log[1].accepted /\ states[1] = log[1].desired
        /\ (/\ hysteresis.k_down = 1
            /\ LE(scores[1], thresholds.tau_y)
            /\ ~GE(scores[1], thresholds.tau_g)
            /\ hysteresis.k_up >= 2) => states[1] = "RED"

\* no prev_state, k_down = 1, min_flip_spacing = 3: RED is emitted at position 0
FirstObservationCanFlipWitness ==
    /\ Len(log) >= 1
    /\ prev_state = "None" /\ hysteresis.k_down = 1 /\ hysteresis.min_flip_spacing = 3
    /\ LE(scores[1], thresholds.tau_y)
    /\ log[1].accepted /\ states[1] = "RED"

\* C25: at each position the transition is accepted exactly when the desired
\* state differs from the current one and i - last_flip_idx >=
\* min_flip_spacing; then current becomes desired, last_flip_idx becomes i and
\* both counters become 0; otherwise current and last_flip_idx are unchanged
\* and the counters keep the values of the counter update.
AcceptanceRule ==
    Len(log) >= 1 =>
        LET i == Len(log) - 1
            at == log[Len(log)]
            rule == /\ at.desired # at.before
                    /\ i - at.last_before >= hysteresis.min_flip_spacing
        IN  /\ at.accepted <=> rule
            /\ IF rule
               THEN /\ current_state = at.desired
                    /\ last_flip_idx = i
                    /\ up_count = 0 /\ down_count = 0
               ELSE /\ current_state = at.before
                    /\ last_flip_idx = at.last_before
                    /\ up_count = at.up /\ down_count = at.down

\* GREEN accepted after two scores >= tau_g, which resets an up-count of 2,
\* then a desired RED held back by the spacing, its down-count of 1 kept
AcceptanceRuleWitness ==
    /\ Len(log) >= 3
    /\ \E p \in DOMAIN log :
          /\ p < Len(log)
          /\ log[p].accepted /\ log[p].desired = "GREEN" /\ log[p].up = 2
    /\ LET at == log[Len(log)]
       IN  /\ at.desired = "RED" /\ at.before = "GREEN" /\ ~at.accepted
           /\ down_count = 1 /\ current_state = "GREEN"

\* C27: for k_up >= 1, k_down >= 1 and min_flip_spacing >= 0, once the state
\* emitted within a call is GREEN it stays GREEN while every following score
\* is >= tau_g, and once it is RED it stays RED while every following score is
\* <= tau_y (a score that is also >= tau_g, possible when tau_y >= tau_g, is
\* left aside).
NoChatterUnderSustainedEvidence ==
    (hysteresis.k_up >= 1 /\ hysteresis.k_down >= 1
        /\ hysteresis.min_flip_spacing >= 0) =>
        \A p \in DOMAIN states :
            p >= 2 =>
                /\ (states[p - 1] = "GREEN" /\ GE(scores[p], thresholds.tau_g))
                      => states[p] = "GREEN"
                /\ (states[p - 1] = "RED" /\ LE(scores[p], thresholds.tau_y)
                        /\ ~GE(scores[p], thresholds.tau_g))
                      => states[p] = "RED"

\* four scores >= tau_g in a row with k_up = 2 and min_flip_spacing = 0:
\* GREEN is reached at the second and left at the third
ChatterUnderSustainedEvidence ==
    /\ hysteresis.k_up = 2 /\ hysteresis.min_flip_spacing = 0
    /\ prev_state = "None"
    /\ Len(scores) = MaxLen
    /\ \A p \in DOMAIN scores : GE(scores[p], thresholds.tau_g)
    /\ SubSeq(states, 1, 4) = <<"YELLOW", "GREEN", "YELLOW", "YELLOW">>

\* the GREEN condition and the RED condition of lines 99-102
GreenCondition(up) == up >= hysteresis.k_up
RedCondition(down) == down >= hysteresis.k_down

\* C28: after the counter update of every observation both counters are >= 0
\* and at most one is non-zero, and so are the counters the iteration leaves;
\* for k_up >= 1 and k_down >= 1 the GREEN condition and the RED condition
\* never hold at the same position.
CountersExclusive ==
    /\ up_count >= 0 /\ down_count >= 0
    /\ up_count = 0 \/ down_count = 0
    /\ \A p \in DOMAIN log :
          /\ log[p].up >= 0 /\ log[p].down >= 0
          /\ log[p].up = 0 \/ log[p].down = 0
          /\ (hysteresis.k_up >= 1 /\ hysteresis.k_down >= 1) =>
                /\ ~(GreenCondition(log[p].up) /\ RedCondition(log[p].down))
                /\ log[p].desired = "RED" <=> RedCondition(log[p].down)

\* a score that is both >= tau_g and <= tau_y comes after a down-count of 1:
\* the up-count becomes 1 and the down-count 0
CountersExclusiveWitness ==
    \E p \in DOMAIN log :
        /\ p >= 2
        /\ log[p - 1].down = 1 /\ ~log[p - 1].accepted
        /\ GE(scores[p], thresholds.tau_g) /\ LE(scores[p], thresholds.tau_y)
        /\ log[p].up = 1 /\ log[p].down = 0
        /\ hysteresis.k_up = 1 /\ hysteresis.k_down = 2

----------------------------------------------------------------------------
(* Claims about score_tradability *)

InUnitInterval(x) == ~x.nan /\ 0 <= x.val /\ x.val <= 100

ExampleFeature == [p \in {0, 1} |-> IF p = 0 THEN Num(0 - 5) ELSE Num(20)]
ExampleScore == [p \in {0, 1} |-> IF p = 0 THEN Num(100) ELSE Num(0)]
IsExampleCall ==
    /\ scored
    /\ weights = [w1 |-> 5, w2 |-> 5]
    /\ e_hat = ExampleFeature /\ l_hat = ExampleFeature

\* w1*(1 - e) + w2*(1 - l) in hundredths, clipped to [0, 1]
ClippedSum(w1, w2, e, l) ==
    LET raw == w1 * (10 - e) + w2 * (10 - l)
    IN  IF raw < 0 THEN 0 ELSE IF raw > 100 THEN 100 ELSE raw

\* C10 as claimed: a score is produced exactly for the common positions and
\* every produced score lies in [0, 1], whatever the input values.
ScoreAlwaysInUnitInterval ==
    scored =>
        /\ DOMAIN score = DOMAIN e_hat \cap DOMAIN l_hat
        /\ \A p \in DOMAIN score : InUnitInterval(score[p])

\* C10 as amended: a score is produced exactly for the common positions; where
\* both features are numbers it is w1*(1-e_hat)+w2*(1-l_hat) clipped to [0, 1],
\* and where either is NaN it is NaN; the example gives 1.0 and 0.0.
ScoreClippedWhereDefined ==
    scored =>
        /\ DOMAIN score = DOMAIN e_hat \cap DOMAIN l_hat
        /\ \A p \in DOMAIN score :
              IF e_hat[p].nan \/ l_hat[p].nan
              THEN score[p].nan
              ELSE /\ InUnitInterval(score[p])
                   /\ score[p].val =
                        ClippedSum(weights.w1, weights.w2, e_hat[p].val, l_hat[p].val)
        /\ IsExampleCall => score = ExampleScore

\* the example call, clipped on both sides
ScoreClippedWhereDefinedWitness == IsExampleCall /\ score = ExampleScore

----------------------------------------------------------------------------
(* minmax_causal *)

MinmaxReturned == f_op = "minmax_causal" /\ f_raised = "none"

\* a fraction that is a number of [0, 1]
QInUnitInterval(a) == ~a.nan /\ 0 <= a.n /\ a.n <= a.d

\* C11 as claimed: for every input series and every win >= 1 each output of
\* minmax_causal lies in [0, 1].
MinmaxAlwaysInUnitInterval ==
    MinmaxReturned => \A p \in DOMAIN f_out : QInUnitInterval(f_out[p])

\* C11 as amended: for win >= 1 the output has the input's positions; it is
\* NaN exactly where the input is NaN, and elsewhere it lies in [0, 1] and is
\* the value scaled by the minimum and maximum of the numbers among the last
\* win values up to that position (fewer at the start, where the window is
\* partial); a window whose numbers are all equal gives 0.
MinmaxInUnitIntervalWhereDefined ==
    MinmaxReturned =>
        /\ f_arg.win >= 1
        /\ DOMAIN f_out = DOMAIN f_x
        /\ \A p \in DOMAIN f_out :
              IF f_x[p].nan THEN f_out[p].nan
              ELSE LET obs == Observed(f_x, Max2(1, p - f_arg.win + 1), p)
                       lo == SetMin(obs)
                       hi == SetMax(obs)
                   IN  /\ QInUnitInterval(f_out[p])
                       /\ f_out[p] = Q((f_x[p].val - lo) * EpsInv, (hi - lo) * EpsInv + 1)
                       /\ lo = hi => f_out[p] = QInt(0)

\* a call with a constant partial window of two numbers (giving 0 before the
\* window is full) and an output strictly inside (0, 1)
MinmaxInUnitIntervalWhereDefinedWitness ==
    /\ MinmaxReturned
    /\ \E p \in DOMAIN f_out :
          /\ 2 <= p /\ p < f_arg.win
          /\ ~f_x[p].nan /\ ~f_x[p - 1].nan /\ f_x[p] = f_x[p - 1]
          /\ f_out[p] = QInt(0)
    /\ \E q \in DOMAIN f_out : 0 < f_out[q].n /\ f_out[q].n < f_out[q].d

----------------------------------------------------------------------------
(* Configuration errors *)

\* the window, span or win argument of the call
SizeArgument ==
    IF "window" \in DOMAIN f_arg THEN f_arg.window
    ELSE IF "span" \in DOMAIN f_arg THEN f_arg.span
    ELSE f_arg.win

TakesSize == DOMAIN f_arg \cap {"window", "span", "win"} # {}

\* C12: every operation that takes a window, span or win fails with a
\* configuration error when that argument is <= 0, and never returns a result.
NonPositiveParameterRejected ==
    (f_op # "none" /\ TakesSize /\ SizeArgument <= 0) => f_raised = "ValueError"

\* ftle_rosenstein returned a number for window = 0, computed from the whole
\* series
FtleFromReinterpretedWindow ==
    /\ f_op = "ftle_rosenstein"
    /\ f_arg.window = 0
    /\ f_raised = "none"
    /\ ~f_out.nan
    /\ f_out = FtleRosenstein(f_x, Len(f_x), f_arg.m, f_arg.tau, f_arg.horizon,
                              f_arg.theiler)

----------------------------------------------------------------------------
(* Insufficient data *)

\* the number of non-missing samples of the series
Samples == Len(DropNa(f_x))

\* the embedded vectors of the last window non-missing samples
EmbeddedVectors ==
    Max2(0, Min2(f_arg.window, Samples) - (f_arg.m - 1) * f_arg.tau)

\* C13: the point estimators never raise; permutation_entropy is NaN whenever
\* there are fewer than (m-1)*tau+1 non-missing samples (and otherwise only for
\* m = 1), ftle_rosenstein with a positive window is NaN whenever fewer than
\* horizon+2 embedded vectors exist (and otherwise only for horizon = 1), and
\* sample_entropy is NaN whenever its embedding of dimension m+1, which has
\* Samples-m vectors, has fewer than the m+2 vectors a pair more than m apart
\* needs.
InsufficientDataIsInvalid ==
    /\ f_op \in {"permutation_entropy", "sample_entropy", "ftle_rosenstein"}
          => f_raised = "none"
    /\ f_op = "permutation_entropy" =>
          (f_out.nan <=> (Samples < (f_arg.m - 1) * f_arg.tau + 1 \/ f_arg.m = 1))
    /\ (f_op = "ftle_rosenstein" /\ f_arg.window >= 1) =>
          (f_out.nan <=> (EmbeddedVectors < f_arg.horizon + 2 \/ f_arg.horizon = 1))
    /\ f_op = "sample_entropy" =>
          (Samples - f_arg.m < f_arg.m + 2 => f_out.nan)

\* ftle_rosenstein returned NaN for exactly horizon+1 embedded vectors
InsufficientDataIsInvalidWitness ==
    /\ f_op = "ftle_rosenstein"
    /\ f_arg.window >= 1
    /\ f_arg.horizon = 2
    /\ EmbeddedVectors = f_arg.horizon + 1
    /\ f_raised = "none"
    /\ f_out.nan

----------------------------------------------------------------------------
(* rolling_permutation_entropy *)

RollingEntropyReturned ==
    f_op = "rolling_permutation_entropy" /\ f_raised = "none"

HasMissing(x) == \E q \in DOMAIN x : x[q].nan

\* C14: rolling_permutation_entropy returns a series with the positions of its
\* input; the value at position i (element i+1) is NaN when i < window-1 or
\* when series[i-window+1 .. i] has a missing value, and otherwise is
\* permutation_entropy of exactly that slice; it is the same when the series
\* is cut after position i.
RollingEntropyAligned ==
    RollingEntropyReturned =>
        /\ DOMAIN f_out = DOMAIN f_x
        /\ \A p \in DOMAIN f_out :
              LET slice == SubSeq(f_x, p - f_arg.window + 1, p)
              IN  /\ IF p - 1 < f_arg.window - 1 \/ HasMissing(slice)
                     THEN f_out[p].nan
                     ELSE f_out[p] = PermutationEntropy(slice, f_arg.m, f_arg.tau)
                  /\ f_out[p] = RollingPermutationEntropy(SubSeq(f_x, 1, p),
                                    f_arg.window, f_arg.m, f_arg.tau)[p]

\* a call whose output has an entropy of two different patterns followed by a
\* later observation, and a full window that is NaN because of a missing value
RollingEntropyAlignedWitness ==
    /\ RollingEntropyReturned
    /\ \E p \in DOMAIN f_out :
          /\ p < Len(f_x)
          /\ ~f_out[p].nan
          /\ Cardinality(DOMAIN f_out[p].counts) = 2
    /\ \E q \in DOMAIN f_out :
          /\ q >= f_arg.window
          /\ HasMissing(SubSeq(f_x, q - f_arg.window + 1, q))
          /\ f_out[q].nan

----------------------------------------------------------------------------
(* permutation_entropy of regular series *)

EntropyReturned == f_op = "permutation_entropy" /\ f_raised = "none"

Increasing(v) == \A i \in 1..(Len(v) - 1) : v[i] < v[i + 1]
Decreasing(v) == \A i \in 1..(Len(v) - 1) : v[i] > v[i + 1]
Constant(v) == \A i \in 1..(Len(v) - 1) : v[i] = v[i + 1]

\* the samples are strictly monotonic or constant and enough for one pattern
RegularSamples ==
    LET v == DropNa(f_x)
    IN  /\ Len(v) >= (f_arg.m - 1) * f_arg.tau + 1
        /\ Increasing(v) \/ Decreasing(v) \/ Constant(v)

\* an entropy that is exactly 0: a number computed from a single pattern
IsZeroEntropy(e) == ~e.nan /\ Cardinality(DOMAIN e.counts) = 1

----------------------------------------------------------------------------
(* rolling_ftle_rosenstein *)

RollingFtleReturned ==
    f_op = "rolling_ftle_rosenstein" /\ f_raised = "none" /\ f_arg.window >= 1

\* ftle_rosenstein of the trailing window that ends at element p
PointFtle(p) ==
    FtleRosenstein(SubSeq(f_x, p - f_arg.window + 1, p), f_arg.window,
                   f_arg.m, f_arg.tau, f_arg.horizon, f_arg.theiler)

\* C16 as claimed: for every series, with or without missing values,
\* rolling_ftle_rosenstein is NaN before the window is full and from then on
\* equals ftle_rosenstein of the trailing window, in validity and in value.
RollingFtleEqualsPoint ==
    RollingFtleReturned =>
        /\ DOMAIN f_out = DOMAIN f_x
        /\ \A p \in DOMAIN f_out :
              IF p < f_arg.window THEN f_out[p].nan ELSE f_out[p] = PointFtle(p)

\* C16 as amended: rolling_ftle_rosenstein is NaN before the window is full
\* and wherever the trailing window has a missing value; where the trailing
\* window is full of numbers it equals ftle_rosenstein of that window.
RollingFtleEqualsPointOnFullWindows ==
    RollingFtleReturned =>
        /\ DOMAIN f_out = DOMAIN f_x
        /\ \A p \in DOMAIN f_out :
              IF p < f_arg.window THEN f_out[p].nan
              ELSE IF HasMissing(SubSeq(f_x, p - f_arg.window + 1, p)) THEN f_out[p].nan
              ELSE f_out[p] = PointFtle(p)

\* a call with an exponent computed from a full window of numbers, and a NaN
\* at a full window with a missing value
RollingFtleEqualsPointOnFullWindowsWitness ==
    /\ RollingFtleReturned
    /\ \E p \in DOMAIN f_out : ~f_out[p].nan /\ f_out[p] = PointFtle(p)
    /\ \E q \in DOMAIN f_out :
          /\ q >= f_arg.window
          /\ HasMissing(SubSeq(f_x, q - f_arg.window + 1, q))
          /\ f_out[q].nan

----------------------------------------------------------------------------
(* Causality *)

\* the series cut after element p
Prefix(x, p) == SubSeq(x, 1, p)

\* the last value of a Series: .iloc[-1]
Last(x) == x[Len(x)]

\* C17: the value of minmax_causal, of ema and of score_tradability on them at
\* a position is the same computed from the series cut after that position as
\* computed from the whole series.
TransformsAreCausal ==
    /\ MinmaxReturned =>
          \A p \in DOMAIN f_out :
              f_out[p] = Last(MinmaxCausal(Prefix(f_x, p), f_arg.win))
    /\ (f_op = "ema" /\ f_raised = "none") =>
          \A p \in DOMAIN f_out :
              f_out[p] = Last(Ema(Prefix(f_x, p), f_arg.span))
    /\ f_op = "pipeline" =>
          \A p \in DOMAIN f_x.error :
              LET live == Pipeline(Prefix(f_x.error, p), Prefix(f_x.latency, p))
              IN  /\ f_out.e_hat[p] = Last(live.e_hat)
                  /\ f_out.l_hat[p] = Last(live.l_hat)
                  /\ f_out.score[p] = live.score[p]

\* a frame of four observations whose later ones differ from the earlier ones,
\* with a score that is a number at the first and the last position
TransformsAreCausalWitness ==
    /\ f_op = "pipeline"
    /\ Len(f_x.error) = 4
    /\ f_x.error[1] # f_x.error[4]
    /\ f_x.latency[1] # f_x.latency[4]
    /\ ~f_out.score[1].nan
    /\ ~f_out.score[4].nan
    /\ f_out.e_hat[4] # f_out.e_hat[1]
    /\ f_out.l_hat[4] # f_out.l_hat[1]

----------------------------------------------------------------------------
(* run_minute_loop: order of the steps *)

\* poll -> compute -> persist -> log -> plot -> health
CallableOrder == <<"poll", "compute", "persist", "log", "plot", "health">>

\* the place of a step callable in that order
PlaceOf(name) == CHOOSE k \in DOMAIN CallableOrder : CallableOrder[k] = name

Running == {name \in DOMAIN ml_outcome : ml_outcome[name] = "running"}
Raised == {name \in DOMAIN ml_outcome : ml_outcome[name] = "raised"}

\* C18: one call invokes the step callables in the order poll, compute,
\* persist, log, plot, health, each at most once; a step starts only when
\* every step invoked before it has returned or raised; a call in which no
\* step raises and the data is not stale invokes all six.
StepsInFixedOrder ==
    /\ \A i, j \in DOMAIN ml_calls :
          i < j => PlaceOf(ml_calls[i]) < PlaceOf(ml_calls[j])
    /\ Cardinality(Running) <= 1
    /\ \A i \in DOMAIN ml_calls :
          IF i < Len(ml_calls) THEN ml_outcome[ml_calls[i]] \in {"ok", "raised"}
          ELSE ml_outcome[ml_calls[i]] \in {"running", "ok", "raised"}
    /\ \A name \in Running : name # "freshness" => name = ml_calls[Len(ml_calls)]
    /\ (ml_pc = "returned" /\ Raised = {} /\ ~ml_stale) => ml_calls = CallableOrder

\* a call that invoked all six although compute raised
StepsInFixedOrderWitness ==
    /\ ml_pc = "returned"
    /\ ml_outcome["compute"] = "raised"
    /\ ml_calls = CallableOrder

----------------------------------------------------------------------------
(* run_minute_loop: failing steps *)

\* the place of a step in the list steps
StepPlace(name) == CHOOSE k \in DOMAIN Steps : Steps[k] = name

\* the steps after name
Later(name) == {Steps[k] : k \in (StepPlace(name) + 1)..Len(Steps)}

\* the step callables after name
LaterCallables(name) == Later(name) \ {"freshness"}

Invoked(name) == ml_outcome[name] \in {"ok", "raised"}

\* error_fn was called once for the step, with its name and its exception
Reported(name) ==
    Cardinality({k \in DOMAIN ml_reports : ml_reports[k].name = name}) = 1
    /\ \E k \in DOMAIN ml_reports :
          ml_reports[k] = [name |-> name, exc |-> ExcOf(name)]

\* what every failure gives: a report when error_fn is given, and no exception
\* for the caller
FailureHandled(name) ==
    /\ ml_fns.error_fn => Reported(name)
    /\ ~ml_fns.error_fn => ml_reports = <<>>
    /\ ml_raised = "none"

\* C19 as claimed: when a step not in critical_steps raises, it is reported to
\* error_fn (when given) with its name and exception, nothing is propagated,
\* and every later step is still invoked (in a call where no step of
\* critical_steps raises).
NonCriticalFailureAlwaysContinues ==
    \A name \in Raised \ ml_critical :
        /\ FailureHandled(name)
        /\ (ml_pc = "returned" /\ Raised \cap ml_critical = {}) =>
              \A t \in LaterCallables(name) : Invoked(t)

\* C19 as amended: such a failure is reported and not propagated, and the loop
\* goes on: when the call has returned, every later step was invoked, or was
\* skipped because the data is stale (compute, persist, log, plot), or comes
\* after a later step of critical_steps that raised.
NonCriticalFailureContinues ==
    \A name \in Raised \ ml_critical :
        /\ FailureHandled(name)
        /\ ml_pc = "returned" =>
              \A t \in Later(name) :
                  \/ Invoked(t)
                  \/ ml_outcome[t] = "skipped" /\ ml_stale /\ t \in skip_when_stale
                  \/ /\ ml_outcome[t] = "notrun"
                     /\ \E u \in Raised \cap ml_critical :
                           StepPlace(name) < StepPlace(u) /\ StepPlace(u) < StepPlace(t)

\* poll raised, was reported, and the five later callables were invoked
NonCriticalFailureContinuesWitness ==
    /\ ml_pc = "returned"
    /\ ml_outcome["poll"] = "raised"
    /\ "poll" \notin ml_critical
    /\ ml_reports = <<[name |-> "poll", exc |-> ExcOf("poll")]>>
    /\ ml_calls = CallableOrder

\* C20: when a step of critical_steps raises, the call returns without
\* invoking (or skipping) any later step, and error_fn, when given, has been
\* called for the failing step last.
CriticalFailureEndsLoop ==
    \A name \in Raised \cap ml_critical :
        /\ ml_pc = "returned"
        /\ \A t \in Later(name) : ml_outcome[t] = "notrun"
        /\ name # "freshness" => ml_calls[Len(ml_calls)] = name
        /\ FailureHandled(name)
        /\ ml_fns.error_fn => ml_reports[Len(ml_reports)].name = name

\* compute is critical and raised after poll had raised: nothing after compute
\* was invoked and both failures were reported
CriticalFailureEndsLoopWitness ==
    /\ "compute" \in ml_critical
    /\ ml_outcome["compute"] = "raised"
    /\ ml_calls = <<"poll", "compute">>
    /\ ml_reports = <<[name |-> "poll", exc |-> ExcOf("poll")],
                      [name |-> "compute", exc |-> ExcOf("compute")]>>
    /\ ml_pc = "returned"

----------------------------------------------------------------------------
(* run_minute_loop: the waits *)

\* the wait of lines 169-170 lasted max(0, sleep_for): never negative, and
\* nothing when the target offset has passed
WaitIsClamped ==
    /\ ml_last_wait.slept = Max2(0, ml_last_wait.sleep_for)
    /\ ml_last_wait.slept >= 0
    /\ ml_last_wait.sleep_for <= 0 => ml_last_wait.slept = 0

\* C21: run_minute_loop waits exactly once before each of the six step
\* callables and at no other place, six waits in a call that runs to its
\* end, and each wait lasts max(0, minute_start + offset(step) - now).
WaitsOncePerCallable ==
    /\ ml_last_wait.step \in Range(CallableOrder) \cup {"none"}
    /\ ml_waits <= Len(CallableOrder)
    /\ (ml_pc = "returned" /\ Raised \cap ml_critical = {}) =>
          ml_waits = Len(CallableOrder)
    /\ WaitIsClamped

\* a call in which every one of the six callables returned, after seven waits
SevenWaitsInOneCall ==
    /\ ml_pc = "returned"
    /\ ml_calls = CallableOrder
    /\ Raised = {}
    /\ ml_waits = 7
    /\ WaitIsClamped

----------------------------------------------------------------------------
(* run_minute_loop: stale data *)

\* the freshness check ran and found the last bar missing or older than
\* freshness_stale_threshold
FoundStale ==
    /\ ml_fns.last_bar_ts_fn
    /\ ~ml_last_bar.raises
    /\ ml_last_bar.missing \/ ml_last_bar.age > STALE_THRESHOLD
    /\ ml_outcome["freshness"] \in {"ok", "raised"}

Downstream == {"compute", "persist", "log", "plot"}

\* no step was skipped and stale_fn was not called
NothingSkipped ==
    /\ ml_stale_calls = 0
    /\ \A t \in Range(Steps) : ml_outcome[t] # "skipped"
    /\ (ml_pc = "returned" /\ Raised \cap ml_critical = {}) =>
          ml_calls = CallableOrder

\* stale_fn was called once if given, and compute, persist, log and plot are
\* not invoked
StaleHandled ==
    /\ ml_stale_calls = (IF ml_fns.stale_fn THEN 1 ELSE 0)
    /\ \A t \in Downstream : ml_outcome[t] \in {"notrun", "skipped"}

\* C29 as claimed: when last_bar_ts_fn is given and the freshness check finds
\* the last bar missing or too old, stale_fn (when given) is called, compute,
\* persist, log and plot are skipped and health is still invoked; otherwise
\* no step is skipped.
StaleAlwaysSkipsToHealth ==
    IF FoundStale
    THEN /\ StaleHandled
         /\ ml_pc = "returned" =>
               /\ \A t \in Downstream : ml_outcome[t] = "skipped"
               /\ Invoked("health")
    ELSE NothingSkipped

\* C29 as amended: the same, except that the call ends at the freshness
\* check, health not invoked, when stale_fn raises and "freshness" is listed
\* in critical_steps.
StaleSkipsToHealth ==
    IF FoundStale
    THEN /\ StaleHandled
         /\ ml_pc = "returned" =>
               IF "freshness" \in Raised \cap ml_critical
               THEN \A t \in Later("freshness") : ml_outcome[t] = "notrun"
               ELSE /\ \A t \in Downstream : ml_outcome[t] = "skipped"
                    /\ Invoked("health")
    ELSE NothingSkipped

\* stale data: stale_fn was called, and after poll only health was invoked
StaleSkipsToHealthWitness ==
    /\ ml_pc = "returned"
    /\ FoundStale
    /\ ml_fns.stale_fn
    /\ ml_stale_calls = 1
    /\ ml_calls = <<"poll", "health">>
    /\ ml_outcome["health"] = "ok"

----------------------------------------------------------------------------
(* ftle_rosenstein: the neighbour search *)

\* ftle_rosenstein, called with a positive window, returned an exponent
FtleValid ==
    /\ f_op = "ftle_rosenstein" /\ f_raised = "none"
    /\ f_arg.window >= 1
    /\ ~f_out.nan

\* embed and anchors of the call (lines 73-80)
Embedded == DelayEmbed(LastWindow(DropNa(f_x), f_arg.window), f_arg.m, f_arg.tau)
Anchors == SubSeq(Embedded, 1, Len(Embedded) - f_arg.horizon)

\* C26: whenever ftle_rosenstein returns a valid result, the neighbour chosen
\* for every anchor differs from the anchor in index by more than theiler (so
\* it is not the anchor itself), and the forward indices i+k and j+k, k =
\* 1..horizon, stay inside the embedded window.
NeighbourOutsideExclusionZone ==
    FtleValid =>
        \A i \in DOMAIN Anchors :
            LET j == NearestNeighbour(Anchors, i, f_arg.theiler)
            IN  /\ j # i
                /\ Abs(j - i) > f_arg.theiler
                /\ \A k \in 1..f_arg.horizon :
                      i + k \in DOMAIN Embedded /\ j + k \in DOMAIN Embedded

\* the forward indices alone
ForwardIndicesInside ==
    FtleValid =>
        \A i \in DOMAIN Anchors : \A k \in 1..f_arg.horizon :
            /\ i + k \in DOMAIN Embedded
            /\ NearestNeighbour(Anchors, i, f_arg.theiler) + k \in DOMAIN Embedded

\* a valid result in which every anchor is inside the exclusion zone of every
\* other: the first anchor is its own neighbour, at divergence 0
SelfNeighbourInValidResult ==
    /\ FtleValid
    /\ f_arg.theiler = 1 /\ f_arg.horizon = 2
    /\ Len(Anchors) = 2
    /\ NearestNeighbour(Anchors, 1, f_arg.theiler) = 1
    /\ NearestNeighbour(Anchors, 2, f_arg.theiler) = 1
    /\ f_out.divergence[1] = <<0, 0>>

----------------------------------------------------------------------------
(* fetch_fx_agg_minute and fetch_quotes: retries *)

\* a failing response: one whose raise_for_status raises
Failing(resp) == resp.status >= 400

HttpOver == h_pc \in {"returned", "raised"}

\* what holds of every call of fetch_fx_agg_minute: at most max_attempts
\* requests, a sleep after each response that is retried and after no other,
\* and the data of the one good response
RetryDiscipline ==
    h_fn = "fetch_fx_agg_minute" =>
        /\ h_requests <= max_attempts
        /\ h_requests = Len(h_log)
        /\ \A p \in DOMAIN h_log :
              (h_log[p].slept # NoSleep) <=> (p < Len(h_log) \/ ~HttpOver)
        /\ \A p \in DOMAIN h_log : h_log[p].slept # NoSleep => h_log[p].slept > 0
        /\ h_pc = "returned" =>
              /\ ~Failing(h_log[Len(h_log)].resp)
              /\ h_results = <<h_log[Len(h_log)].resp.payload>>
        /\ h_pc = "raised" => h_raised = "RuntimeError"

\* C22: fetch_fx_agg_minute makes at most 3 requests per call; a failing
\* response is followed by a retry unless it is the third; when every response
\* fails the call raises RuntimeError after exactly 3 requests; there is no
\* sleep after the last request; the data returned is that of the first
\* response that does not fail.
RetriesEveryFailure ==
    h_fn = "fetch_fx_agg_minute" =>
        /\ RetryDiscipline
        /\ \A p \in DOMAIN h_log :
              (Failing(h_log[p].resp) /\ p < max_attempts) =>
                  h_log[p].slept # NoSleep
        /\ (h_pc = "raised" /\ h_log # <<>>
                /\ \A p \in DOMAIN h_log : Failing(h_log[p].resp)) =>
              h_requests = max_attempts

\* a 404 ends the call with RuntimeError after a single request
NotFoundIsNotRetried ==
    /\ h_fn = "fetch_fx_agg_minute"
    /\ h_pc = "raised" /\ h_raised = "RuntimeError"
    /\ h_requests = 1
    /\ h_log[1].resp.status = 404
    /\ h_log[1].slept = NoSleep

\* the header of a response as a number of seconds, in tenths
HeaderSeconds(resp) == ParseSeconds(resp.retry_after)

\* C23: when fetch_quotes receives a 429 with a Retry-After header, it sleeps
\* exactly the header's number of seconds before it requests the same page
\* again, and when that request succeeds its data is returned: two requests,
\* one sleep.
RetryAfterHonoured ==
    h_fn = "fetch_quotes" =>
        \A p \in DOMAIN h_log :
            (/\ h_log[p].resp.status = 429
             /\ HeaderSeconds(h_log[p].resp) > 0
             /\ h_log[p].slept # NoSleep) =>
                h_log[p].slept = HeaderSeconds(h_log[p].resp)

\* a 429 with Retry-After: 4, a sleep of 1 to 2 seconds, then the data of the
\* second response
RetryAfterIgnored ==
    /\ h_fn = "fetch_quotes"
    /\ h_pc = "returned"
    /\ h_requests = 2
    /\ h_log[1].resp.status = 429 /\ h_log[1].resp.retry_after = "4"
    /\ h_log[1].slept \in {Backoff(0, j) : j \in Jitters}
    /\ h_log[1].slept < 40
    /\ h_log[2].slept = NoSleep
    /\ h_results = <<h_log[2].resp.payload>>

----------------------------------------------------------------------------
(* write_parquet and write_json: atomicity *)

\* the target path holds what it held when the call began, or the whole of
\* the new content
TargetIsOldOrNew == w_fn # "none" => w_target \in {w_prev, File(w_obj)}

\* C24: at every point of a call of write_json or write_parquet, also when
\* the serialization or the replace fails or the process is interrupted, the
\* target path holds its previous content or the complete new content; and
\* once the call has returned or raised, its temporary file is gone.
WritesAreAtomic ==
    /\ TargetIsOldOrNew
    /\ w_pc \in {"returned", "raised"} => w_temp = NoFile

\* write_json raised TypeError in the middle of the serialization: the target
\* is as before and a temporary file with part of the content remains
TemporaryFileLeftBehind ==
    /\ w_fn = "write_json"
    /\ w_pc = "raised" /\ w_raised = "TypeError"
    /\ w_obj = <<"a", "b">>
    /\ w_temp = File(<<"a">>)
    /\ w_target = w_prev

----------------------------------------------------------------------------
(* _append_polled_bars: gaps, late bars and the last-seen timestamp *)

\* the number of times a timestamp was logged as a gap
TimesLoggedAsGap(t) == Cardinality({k \in DOMAIN b_gap_events : b_gap_events[k] = t})

\* the last-seen timestamp never goes back
LastSeenNeverDecreases == b_last >= b_before

\* C30: over polls handled with a session logger, the last-seen timestamp
\* never decreases, and every minute from the first accepted bar to the
\* last-seen timestamp is accounted for exactly once, as a seen bar or as a
\* logged gap, so that seen_bars + gap_count is the number of minutes in that
\* range; minutes missing between two bars of one poll included.
EveryMinuteAccounted ==
    b_logged =>
        /\ LastSeenNeverDecreases
        /\ b_first # NoTs =>
              /\ b_seen_bars + b_gap_count = b_last - b_first + 1
              /\ \A t \in b_first..b_last :
                    (IF t \in b_stored THEN 1 ELSE 0) + TimesLoggedAsGap(t) = 1

\* one poll with the bars of minutes 0 and 2: both are seen, the last-seen
\* timestamp is 2, and minute 1 is neither a bar nor a logged gap
GapInsidePollNotLogged ==
    /\ b_logged
    /\ b_polls = 1
    /\ b_stored = {0, 2}
    /\ b_last = 2
    /\ b_seen_bars = 2
    /\ b_gap_count = 0 /\ b_gap_events = <<>>

====
